---------------------------- MODULE Spec2Model ----------------------------
(***************************************************************************)
(* Campaign-finance comparison of news_contribution_check: the per-mention *)
(* pipeline of CFMatcher.compare (normalise, shortlist, threshold gate,    *)
(* adjudication by the text-generation service, report writing).           *)
(*                                                                         *)
(* A Python str on which the code does character work (lower, upper, re,   *)
(* split, str, int) is a sequence of one-character strings.  The names of  *)
(* exception classes, column names and the fixed labels of the report are  *)
(* TLA+ strings.                                                           *)
(***************************************************************************)
EXTENDS Integers, Sequences, FiniteSets, TLC

(***************************************************************************)
(* Characters.                                                             *)
(***************************************************************************)
UpperCase == <<"A","B","C","D","E","F","G","H","I","J","K","L","M",
               "N","O","P","Q","R","S","T","U","V","W","X","Y","Z">>

LowerCase == <<"a","b","c","d","e","f","g","h","i","j","k","l","m",
               "n","o","p","q","r","s","t","u","v","w","x","y","z">>

Digits == <<"0","1","2","3","4","5","6","7","8","9">>

Range(f) == {f[i] : i \in DOMAIN f}

\* what an assignment to a local variable does: value is evaluated once and the
\* rest of the computation, Body, works on the result
With(value, Body(_)) == CHOOSE result \in {Body(v) : v \in {value}} : TRUE

\* str.lower() / str.upper(), one character
LowerChar(c) ==
    IF \E i \in DOMAIN UpperCase : UpperCase[i] = c
    THEN LowerCase[CHOOSE i \in DOMAIN UpperCase : UpperCase[i] = c]
    ELSE c

UpperChar(c) ==
    IF \E i \in DOMAIN LowerCase : LowerCase[i] = c
    THEN UpperCase[CHOOSE i \in DOMAIN LowerCase : LowerCase[i] = c]
    ELSE c

Lower(s) == With(s, LAMBDA v : [i \in 1..Len(v) |-> LowerChar(v[i])] \o <<>>)

Upper(s) == With(s, LAMBDA v : [i \in 1..Len(v) |-> UpperChar(v[i])] \o <<>>)

\* the regex classes \w and \s
IsWordChar(c) == c \in Range(UpperCase) \cup Range(LowerCase) \cup Range(Digits) \cup {"_"}

IsSpaceChar(c) == c \in {" ", "\t", "\n", "\r"}

(***************************************************************************)
(* CFMatcher._normalize                                                    *)
(***************************************************************************)
\* the alternatives of the suffix pattern, in the order the pattern lists them
SuffixAlternatives ==
    << <<"i","n","c","o","r","p","o","r","a","t","e","d">>,
       <<"i","n","c">>,
       <<"l","l","c">>,
       <<"l",".","l",".","c",".">>,
       <<"l","t","d">>,
       <<"c","o">>,
       <<"c","o","r","p">>,
       <<"c","o","r","p","o","r","a","t","i","o","n">>,
       <<"p","l","c">> >>

\* \b before position p (1-based): exactly one of s[p-1], s[p] is a word character
WordBoundary(s, p) ==
    LET before == p > 1 /\ p - 1 <= Len(s) /\ IsWordChar(s[p - 1])
        after  == p >= 1 /\ p <= Len(s) /\ IsWordChar(s[p])
    IN  before # after

LiteralAt(s, p, lit) ==
    /\ p + Len(lit) - 1 <= Len(s)
    /\ \A k \in 1..Len(lit) : s[p + k - 1] = lit[k]

\* the pattern without its leading \b: alternative a matches at p wherever it
\* ends a word
AlternativeAtUnanchored(s, p, a) ==
    /\ LiteralAt(s, p, SuffixAlternatives[a])
    /\ WordBoundary(s, p + Len(SuffixAlternatives[a]))

\* \b(alt)\b with alternative a matches at p
AlternativeAt(s, p, a) ==
    /\ WordBoundary(s, p)
    /\ LiteralAt(s, p, SuffixAlternatives[a])
    /\ WordBoundary(s, p + Len(SuffixAlternatives[a]))

\* length of the match of the suffix pattern at p, 0 when there is none:
\* the first alternative, in pattern order, that lets the whole pattern match
SuffixMatchLen(s, p) ==
    IF \E a \in DOMAIN SuffixAlternatives : AlternativeAt(s, p, a)
    THEN LET a == CHOOSE x \in DOMAIN SuffixAlternatives :
                     /\ AlternativeAt(s, p, x)
                     /\ \A y \in 1..(x - 1) : ~AlternativeAt(s, p, y)
         IN  Len(SuffixAlternatives[a])
    ELSE 0

RECURSIVE RemoveSuffixesFrom(_, _)
\* re.sub(pattern, "", s): leftmost non-overlapping matches, scanning from p
RemoveSuffixesFrom(s, p) ==
    IF p > Len(s) THEN <<>>
    ELSE With(SuffixMatchLen(s, p),
              LAMBDA n : IF n > 0 THEN With(p + n, LAMBDA q : RemoveSuffixesFrom(s, q))
                         ELSE <<s[p]>> \o With(p + 1, LAMBDA q : RemoveSuffixesFrom(s, q)))

RemoveSuffixes(s) == With(s, LAMBDA v : RemoveSuffixesFrom(v, 1))

RECURSIVE DeletePunctuation(_)
DeletePunctuation(s) ==
    IF Len(s) = 0 THEN <<>>
    ELSE IF IsWordChar(Head(s)) \/ IsSpaceChar(Head(s))
    THEN <<Head(s)>> \o DeletePunctuation(Tail(s))
    ELSE DeletePunctuation(Tail(s))

\* the substitution with "" for " ": punctuation is deleted and what it
\* separated runs together
RemovePunctuationDeleting(s) == With(s, LAMBDA v : DeletePunctuation(v))

\* re.sub(r"[^\w\s]", " ", s)
RemovePunctuation(s) ==
    With(s, LAMBDA v :
        [i \in 1..Len(v) |-> IF IsWordChar(v[i]) \/ IsSpaceChar(v[i]) THEN v[i] ELSE " "]
            \o <<>>)

RECURSIVE CollapseFrom(_, _)
\* re.sub(r"\s+", " ", s): every maximal run of whitespace becomes one space
CollapseFrom(s, p) ==
    IF p > Len(s) THEN <<>>
    ELSE With(p + 1, LAMBDA q :
            IF IsSpaceChar(s[p])
            THEN IF p > 1 /\ IsSpaceChar(s[p - 1])
                 THEN CollapseFrom(s, q)
                 ELSE <<" ">> \o CollapseFrom(s, q)
            ELSE <<s[p]>> \o CollapseFrom(s, q))

CollapseWhitespace(s) == With(s, LAMBDA v : CollapseFrom(v, 1))

\* str.strip()
Strip(s) ==
    With(s, LAMBDA v :
        IF \A i \in DOMAIN v : IsSpaceChar(v[i]) THEN <<>>
        ELSE LET first == CHOOSE i \in DOMAIN v :
                              ~IsSpaceChar(v[i]) /\ \A j \in 1..(i - 1) : IsSpaceChar(v[j])
                 last  == CHOOSE i \in DOMAIN v :
                              ~IsSpaceChar(v[i]) /\ \A j \in (i + 1)..Len(v) : IsSpaceChar(v[j])
             IN  SubSeq(v, first, last))

\* Python's None: a value no str equals (a str is a sequence of one-character
\* strings)
None == <<"None">>

\* (s or "")
OrEmpty(s) == IF s = None THEN <<>> ELSE s

_normalize(s) ==
    Strip(CollapseWhitespace(RemovePunctuation(RemoveSuffixes(Lower(OrEmpty(s))))))

(***************************************************************************)
(* rapidfuzz.fuzz.token_set_ratio, the scorer _shortlist_candidates hands  *)
(* to process.extract (no processor, no score cutoff), and the int() the   *)
(* code applies to its result.                                             *)
(***************************************************************************)
\* the characters in code-point order: sorted() orders tokens by it
CharOrder == <<"\t", "\n", "\r", " ", "&", "'", ",", "-", ".">> \o Digits \o UpperCase
                 \o <<"_">> \o LowerCase

Ord(c) == CHOOSE i \in DOMAIN CharOrder : CharOrder[i] = c

Max(a, b) == IF a >= b THEN a ELSE b

Min(a, b) == IF a <= b THEN a ELSE b

\* a < b for two str
StrLess(a, b) ==
    \E k \in 1..(Min(Len(a), Len(b)) + 1) :
        /\ \A j \in 1..(k - 1) : a[j] = b[j]
        /\ \/ k > Len(a) /\ k <= Len(b)
           \/ k <= Len(a) /\ k <= Len(b) /\ Ord(a[k]) < Ord(b[k])

\* set(s.split()): the maximal runs of non-whitespace characters
Tokens(s) ==
    With(s, LAMBDA v :
        { SubSeq(v, i, j) : <<i, j>> \in
            { <<x, y>> \in (DOMAIN v) \X (DOMAIN v) :
                /\ x <= y
                /\ \A k \in x..y : ~IsSpaceChar(v[k])
                /\ (x = 1 \/ IsSpaceChar(v[x - 1]))
                /\ (y = Len(v) \/ IsSpaceChar(v[y + 1])) } })

RECURSIVE JoinSorted(_)
\* " ".join(sorted(tokens))
JoinSorted(tokens) ==
    IF tokens = {} THEN <<>>
    ELSE With(CHOOSE t \in tokens : \A u \in tokens \ {t} : StrLess(t, u),
              LAMBDA least :
                  With(tokens \ {least},
                       LAMBDA rest : IF rest = {} THEN least
                                     ELSE least \o <<" ">> \o JoinSorted(rest)))

RECURSIVE LcsRow(_, _, _, _)
\* one row of the longest-common-subsequence table, built left to right:
\* row[j] is the LCS length of a[1..i] and b[1..j], prev the row of a[1..i-1],
\* c = a[i]
LcsRow(prev, c, b, row) ==
    IF Len(row) = Len(prev) THEN row
    ELSE LET j == Len(row) + 1
             left == IF j = 1 THEN 0 ELSE row[j - 1]
             diag == IF j = 1 THEN 0 ELSE prev[j - 1]
             cell == IF c = b[j] THEN diag + 1 ELSE Max(prev[j], left)
         IN  With(Append(row, cell), LAMBDA longer : LcsRow(prev, c, b, longer))

RECURSIVE LcsRows(_, _, _)
\* the row of a[1..i]
LcsRows(a, b, i) ==
    IF i = 0 THEN [j \in 1..Len(b) |-> 0]
    ELSE With(LcsRows(a, b, i - 1), LAMBDA prev : LcsRow(prev, a[i], b, <<>>))

LcsLen(a, b) ==
    With(<<a, b>>, LAMBDA v :
        IF Len(v[1]) = 0 \/ Len(v[2]) = 0 THEN 0
        ELSE LcsRows(v[1], v[2], Len(v[1]))[Len(v[2])])

\* Indel distance: insertions and deletions only
IndelDistance(a, b) == Len(a) + Len(b) - 2 * LcsLen(a, b)

RECURSIVE Gcd(_, _)
Gcd(a, b) == IF b = 0 THEN a ELSE Gcd(b, a % b)

\* A score is the float the scorer returns, kept exact: <<num, den>> in lowest
\* terms stands for 100 * num / den
Score(num, den) == <<num \div Gcd(num, den), den \div Gcd(num, den)>>

\* a < b for two scores
ScoreLess(a, b) == a[1] * b[2] < b[1] * a[2]

\* max(a, b) for two scores
ScoreMax(a, b) == IF ScoreLess(a, b) THEN b ELSE a

\* int(score)
IntScore(score) == (100 * score[1]) \div score[2]

\* 100 - 100 * dist / lensum, dist <= lensum
NormDistance(dist, lensum) ==
    IF lensum > 0 THEN Score(lensum - dist, lensum) ELSE Score(1, 1)

\* the last step of token_set_ratio: result is the ratio of the two joined
\* differences; with a non-empty intersection the ratios of the intersection
\* against intersection + difference compete with it
BestRatio(result, sect_len, ab_len, ba_len) ==
    IF sect_len = 0 THEN result
    ELSE ScoreMax(result,
                  ScoreMax(NormDistance(1 + ab_len, sect_len + (sect_len + 1 + ab_len)),
                           NormDistance(1 + ba_len, sect_len + (sect_len + 1 + ba_len))))

\* sect_len + (sect_len != 0) + len(diff)
SectLen(sect_len, diff_len) == sect_len + (IF sect_len # 0 THEN 1 ELSE 0) + diff_len

JoinedRatio(sect, diff_ab, diff_ba) ==
    With(NormDistance(IndelDistance(diff_ab, diff_ba),
                      SectLen(Len(sect), Len(diff_ab)) + SectLen(Len(sect), Len(diff_ba))),
         LAMBDA result : BestRatio(result, Len(sect), Len(diff_ab), Len(diff_ba)))

TokenSetRatio(tokens_a, tokens_b) ==
    IF tokens_a = {} \/ tokens_b = {} THEN Score(0, 1)
    ELSE IF /\ tokens_a \cap tokens_b # {}
            /\ (tokens_a \subseteq tokens_b \/ tokens_b \subseteq tokens_a)
    THEN Score(1, 1)
    ELSE With(<<JoinSorted(tokens_a \cap tokens_b),
                JoinSorted(tokens_a \ tokens_b),
                JoinSorted(tokens_b \ tokens_a)>>,
              LAMBDA joined : JoinedRatio(joined[1], joined[2], joined[3]))

\* fuzz.ratio(s1, s2): the scorer that compares the two strings as they
\* stand, without splitting them into tokens
ratio(s1, s2) ==
    With(<<s1, s2>>, LAMBDA v :
        NormDistance(IndelDistance(v[1], v[2]), Len(v[1]) + Len(v[2])))

\* fuzz.token_set_ratio(s1, s2)
token_set_ratio(s1, s2) ==
    With(<<Tokens(s1), Tokens(s2)>>, LAMBDA tokens : TokenSetRatio(tokens[1], tokens[2]))

(***************************************************************************)
(* CFMatcher._shortlist_candidates                                         *)
(***************************************************************************)
\* the score of every choice, in the order of choices
ScoreAll(query, choices) ==
    With(query, LAMBDA q : [p \in 1..Len(choices) |-> token_set_ratio(q, choices[p])] \o <<>>)

\* the order that puts the later of two choices with one score first
RankLaterFirst(score, p) ==
    1 + Cardinality({q \in DOMAIN score :
                        ScoreLess(score[p], score[q]) \/ (score[q] = score[p] /\ q > p)})

\* the place of the choice at position p in the order by score, highest first,
\* a tie by position
Rank(score, p) ==
    1 + Cardinality({q \in DOMAIN score :
                        ScoreLess(score[p], score[q]) \/ (score[q] = score[p] /\ q < p)})

\* the limit best-placed choices as (choice, score, idx), idx counted from 0
TopScored(score, choices, limit) ==
    [k \in 1..Min(limit, Len(choices)) |->
        With(CHOOSE p \in DOMAIN score : Rank(score, p) = k,
             LAMBDA p : [choice |-> choices[p], score |-> score[p], idx |-> p - 1])] \o <<>>

\* process.extract(query, choices, scorer=fuzz.token_set_ratio, limit=limit):
\* every choice is scored, the result is ordered by score, highest first, a tie
\* by position in choices, and cut to limit entries; idx counts from 0
Extract(query, choices, limit) ==
    With(ScoreAll(query, choices), LAMBDA score : TopScored(score, choices, limit))

CFMatchCandidate(index, contributor_name, contributor_employer, name_score, employer_score) ==
    [index |-> index,
     contributor_name |-> contributor_name,
     contributor_employer |-> contributor_employer,
     name_score |-> name_score,
     employer_score |-> employer_score]

\* by_index is the dict in insertion order; the position of key idx, 0 if absent
EntryPos(by_index, idx) ==
    IF \E p \in DOMAIN by_index : by_index[p].index = idx
    THEN CHOOSE p \in DOMAIN by_index : by_index[p].index = idx
    ELSE 0

\* the first loop with the index counted from 1: the candidate of position idx
\* is entered as idx + 1
MergeNameOneBased(idx, score, by_index, cf_names, cf_employers) ==
    IF EntryPos(by_index, idx + 1) # 0
    THEN [by_index EXCEPT ![EntryPos(by_index, idx + 1)].name_score = Max(@, IntScore(score))]
    ELSE Append(by_index,
                CFMatchCandidate(idx + 1, cf_names[idx + 1], cf_employers[idx + 1],
                                 IntScore(score), 0))

\* lines 166-176: one (cand, score, idx) of top_names
MergeName(idx, score, by_index, cf_names, cf_employers) ==
    IF EntryPos(by_index, idx) # 0
    THEN [by_index EXCEPT ![EntryPos(by_index, idx)].name_score = Max(@, IntScore(score))]
    ELSE Append(by_index,
                CFMatchCandidate(idx, cf_names[idx + 1], cf_employers[idx + 1],
                                 IntScore(score), 0))

\* the second loop without its lookup: every element of top_emps adds a candidate
MergeEmployerAppending(idx, score, by_index, cf_names, cf_employers) ==
    Append(by_index,
           CFMatchCandidate(idx, cf_names[idx + 1], cf_employers[idx + 1], 0, IntScore(score)))

\* lines 178-188: one (cand, score, idx) of top_emps
MergeEmployer(idx, score, by_index, cf_names, cf_employers) ==
    IF EntryPos(by_index, idx) # 0
    THEN [by_index EXCEPT ![EntryPos(by_index, idx)].employer_score = Max(@, IntScore(score))]
    ELSE Append(by_index,
                CFMatchCandidate(idx, cf_names[idx + 1], cf_employers[idx + 1],
                                 0, IntScore(score)))

RECURSIVE MergeNames(_, _, _, _, _)
\* the loop over top_names, from its k-th element
MergeNames(top_names, k, by_index, cf_names, cf_employers) ==
    IF k > Len(top_names) THEN by_index
    ELSE With(MergeName(top_names[k].idx, top_names[k].score, by_index,
                        cf_names, cf_employers),
              LAMBDA merged : MergeNames(top_names, k + 1, merged, cf_names, cf_employers))

RECURSIVE MergeEmployers(_, _, _, _, _)
\* the loop over top_emps, from its k-th element
MergeEmployers(top_emps, k, by_index, cf_names, cf_employers) ==
    IF k > Len(top_emps) THEN by_index
    ELSE With(MergeEmployer(top_emps[k].idx, top_emps[k].score, by_index,
                            cf_names, cf_employers),
              LAMBDA merged : MergeEmployers(top_emps, k + 1, merged, cf_names, cf_employers))

\* the key of the final sort and of the gate
CandScore(c) == Max(c.name_score, c.employer_score)

\* the values as the dict holds them, in insertion order: the sort left out
Unsorted(values) == values

\* sorted(values, key=CandScore, reverse=True): stable, equal keys keep their order
SortedByScore(values) ==
    With(values, LAMBDA v :
        LET pos(p) == 1 + Cardinality({q \in DOMAIN v :
                           \/ CandScore(v[q]) > CandScore(v[p])
                           \/ (CandScore(v[q]) = CandScore(v[p]) /\ q < p)})
        IN  [k \in 1..Len(v) |-> v[CHOOSE p \in DOMAIN v : pos(p) = k]] \o <<>>)

\* lines 164-188: by_index after the two loops
MergeTops(top_names, top_emps, cf_names, cf_employers) ==
    With(MergeNames(top_names, 1, <<>>, cf_names, cf_employers),
         LAMBDA by_index : MergeEmployers(top_emps, 1, by_index, cf_names, cf_employers))

_shortlist_candidates(norm_mention, cf_names, cf_employers, top_k) ==
    With(<<Extract(norm_mention, cf_names, top_k), Extract(norm_mention, cf_employers, top_k)>>,
         LAMBDA top : SortedByScore(MergeTops(top[1], top[2], cf_names, cf_employers)))

(***************************************************************************)
(* Strings of the program and of the sample inputs.                        *)
(***************************************************************************)
STR_ACME_WIDGETS_LLC == <<"A","c","m","e"," ","W","i","d","g","e","t","s"," ","L","L","C">>

STR_OTHER == <<"O","t","h","e","r">>

STR_ACME_HOLDINGS == <<"A","c","m","e"," ","H","o","l","d","i","n","g","s">>

STR_RANDOM_HOUSE == <<"R","a","n","d","o","m"," ","H","o","u","s","e">>

STR_UNRELATED == <<"U","n","r","e","l","a","t","e","d">>

STR_ACME_INC == <<"A","c","m","e",","," ","I","n","c",".">>

STR_GLOBAL_FUND_ACME == <<"G","l","o","b","a","l"," ","F","u","n","d"," ","A","c","m","e">>

STR_ACME_GLOBAL_FUND == <<"A","c","m","e"," ","G","l","o","b","a","l"," ","F","u","n","d">>

STR_ACME_FUND == <<"A","C","M","E"," ","F","u","n","d">>

STR_RANDOM_CO == <<"R","a","n","d","o","m"," ","C","o",".">>

STR_BLANK == <<" "," ">>

STR_ACME_OTHERS == <<"A","c","m","e"," ","O","t","h","e","r","s">>

STR_CSV == <<".","c","s","v">>

STR_CSV_UPPER == <<".","C","S","V">>

STR_TXT == <<".","t","x","t">>

STR_UNPARSEABLE == <<"U","n","p","a","r","s","e","a","b","l","e"," ","L","L","M"," ",
                     "r","e","s","p","o","n","s","e">>

STR_BOOM == <<"b","o","o","m">>

STR_OK == <<"o","k">>

STR_MATCH == <<"M","A","T","C","H">>

STR_MATCH_LOWER == <<"m","a","t","c","h">>

STR_NO_MATCH == <<"N","O","_","M","A","T","C","H">>

STR_REVIEW == <<"R","E","V","I","E","W">>

STR_MAYBE == <<"M","A","Y","B","E">>

STR_NONE == <<"N","o","n","e">>

STR_ONE == <<"1">>

STR_X == <<"x">>

STR_RANGE == <<"r","a","n","g","e">>

STR_WRAPPED == <<"w","r","a","p","p","e","d">>

(***************************************************************************)
(* The service's response text and json.loads.  A text is a sequence of    *)
(* tokens: a brace, a run of prose without braces, or one "key": value     *)
(* member (the commas between members are not tokens).                     *)
(***************************************************************************)
JStr(s) == [t |-> "str", s |-> s, n |-> 0]

JInt(n) == [t |-> "int", s |-> <<>>, n |-> n]

JNull == [t |-> "null", s |-> <<>>, n |-> 0]

LBrace == [tok |-> "{", key |-> "", val |-> JNull]

RBrace == [tok |-> "}", key |-> "", val |-> JNull]

Prose == [tok |-> "prose", key |-> "", val |-> JNull]

Pair(key, val) == [tok |-> "pair", key |-> key, val |-> val]

\* text.find(tok): the first position of tok counted from 0, -1 if there is none
Find(text, tok) ==
    IF \E p \in DOMAIN text : text[p] = tok
    THEN (CHOOSE p \in DOMAIN text : text[p] = tok /\ \A q \in 1..(p - 1) : text[q] # tok) - 1
    ELSE -1

\* text.rfind(tok): the last position of tok counted from 0, -1 if there is none
RFind(text, tok) ==
    IF \E p \in DOMAIN text : text[p] = tok
    THEN (CHOOSE p \in DOMAIN text :
              text[p] = tok /\ \A q \in (p + 1)..Len(text) : text[q] # tok) - 1
    ELSE -1

\* text[start:end], positions counted from 0
Slice(text, start, end) == SubSeq(text, start + 1, end)

\* whether json.loads(span) succeeds: an opening brace, members, a closing brace
JsonValid(span) ==
    /\ Len(span) >= 2
    /\ span[1] = LBrace
    /\ span[Len(span)] = RBrace
    /\ \A p \in 2..(Len(span) - 1) : span[p].tok = "pair"

\* data.get(key, default) on the dict json.loads(span) returns: of a repeated
\* key the last member counts
DictGet(span, key, default) ==
    IF \E p \in DOMAIN span : span[p].tok = "pair" /\ span[p].key = key
    THEN span[CHOOSE p \in DOMAIN span :
                  /\ span[p].tok = "pair" /\ span[p].key = key
                  /\ \A q \in (p + 1)..Len(span) :
                         ~(span[q].tok = "pair" /\ span[q].key = key)].val
    ELSE default

RECURSIVE IntToStr(_)
\* str(n) of an int
IntToStr(n) ==
    IF n < 0 THEN <<"-">> \o IntToStr(0 - n)
    ELSE IF n < 10 THEN <<Digits[n + 1]>>
    ELSE IntToStr(n \div 10) \o <<Digits[(n % 10) + 1]>>

\* str(v) of a decoded JSON value
PyStr(v) ==
    CASE v.t = "str" -> v.s
      [] v.t = "int" -> IntToStr(v.n)
      [] OTHER -> STR_NONE

DigitValue(c) == (CHOOSE i \in DOMAIN Digits : Digits[i] = c) - 1

RECURSIVE DigitsValue(_)
DigitsValue(d) ==
    IF Len(d) = 0 THEN 0
    ELSE 10 * DigitsValue(SubSeq(d, 1, Len(d) - 1)) + DigitValue(d[Len(d)])

\* int(v) of a decoded JSON value: ok is FALSE where int() raises (None, or a
\* str that is not an optional sign and digits between optional whitespace)
PyInt(v) ==
    CASE v.t = "int" -> [ok |-> TRUE, n |-> v.n]
      [] v.t = "str" ->
            LET t == Strip(v.s)
                signed == Len(t) > 0 /\ t[1] \in {"+", "-"}
                d == IF signed THEN Tail(t) ELSE t
                ok == Len(d) > 0 /\ \A i \in DOMAIN d : d[i] \in Range(Digits)
            IN  IF ~ok THEN [ok |-> FALSE, n |-> 0]
                ELSE [ok |-> TRUE,
                      n |-> IF signed /\ t[1] = "-" THEN 0 - DigitsValue(d) ELSE DigitsValue(d)]
      [] OTHER -> [ok |-> FALSE, n |-> 0]

(***************************************************************************)
(* CFMatcher._format_accept and CFMatcher._llm_adjudicate                  *)
(***************************************************************************)
\* A decision string: its leading word (what startswith tests), the bracketed
\* note after it and, for an ACCEPT, the values formatted into it
Decision(kind, note, field, score, name, employer) ==
    [kind |-> kind, note |-> note, field |-> field, score |-> score,
     name |-> name, employer |-> employer]

\* "REVIEW (LLM)", "REVIEW (LLM error)", "NO_MATCH (LLM)"
PlainDecision(kind, note) == Decision(kind, note, "", 0, <<>>, <<>>)

StartsWith(decision, prefix) == decision.kind = prefix

\* _format_accept printing the candidate's own fields, which hold the normalised
\* strings of the search spaces
FormatAcceptNormalized(cand, cf_records) ==
    Decision("ACCEPT", "",
             IF cand.name_score >= cand.employer_score THEN "Name" ELSE "Employer",
             Max(cand.name_score, cand.employer_score),
             cand.contributor_name, cand.contributor_employer)

\* _format_accept comparing with > : equal scores are attributed to the employer
FormatAcceptStrict(cand, cf_records) ==
    LET rec == cf_records[cand.index + 1]
        field == IF cand.name_score > cand.employer_score THEN "Name" ELSE "Employer"
        score == Max(cand.name_score, cand.employer_score)
    IN  Decision("ACCEPT", "", field, score,
                 rec["Contributor Name"], rec["Contributor Employer"])

_format_accept(cand, cf_records) ==
    LET rec == cf_records[cand.index + 1]
        field == IF cand.name_score >= cand.employer_score THEN "Name" ELSE "Employer"
        score == Max(cand.name_score, cand.employer_score)
    IN  Decision("ACCEPT", "", field, score,
                 rec["Contributor Name"], rec["Contributor Employer"])

\* the request: the mention and the candidates, numbered from 1, each with the
\* record's original and normalised fields and its scores
BuildPrompt(mention_original, mention_normalized, candidates, cf_records) ==
    [mention_original |-> mention_original,
     mention_normalized |-> mention_normalized,
     candidates |->
        [i \in DOMAIN candidates |->
            LET rec == cf_records[candidates[i].index + 1]
                name_orig == rec["Contributor Name"]
                emp_orig == rec["Contributor Employer"]
            IN  [i |-> i,
                 name |-> name_orig,
                 name_norm |-> _normalize(name_orig),
                 employer |-> emp_orig,
                 employer_norm |-> _normalize(emp_orig),
                 name_score |-> candidates[i].name_score,
                 employer_score |-> candidates[i].employer_score]]]

\* what messages.create does: it raises (msg is str(e)), returns a message with
\* no content block, or returns a message whose first block holds text
Raises(msg) == [kind |-> "raise", msg |-> msg, text |-> <<>>]

NoContent == [kind |-> "empty", msg |-> <<>>, text |-> <<>>]

Returns(text) == [kind |-> "text", msg |-> <<>>, text |-> text]

\* the parse that takes an object lacking one of the three members for
\* unparseable
ParseObjectStrictKeys(span, idx) ==
    IF ~idx.ok \/ \E key \in {"decision", "index", "reason"} :
                     \A p \in DOMAIN span : span[p].key # key
    THEN [decision |-> STR_REVIEW, idx |-> 0, reason |-> STR_UNPARSEABLE]
    ELSE [decision |-> Upper(PyStr(DictGet(span, "decision", JStr(STR_REVIEW)))),
          idx |-> idx.n,
          reason |-> PyStr(DictGet(span, "reason", JStr(<<>>)))]

\* lines 277-280 on a span json.loads accepts
ParseObject(span, idx) ==
    IF ~idx.ok
    THEN [decision |-> STR_REVIEW, idx |-> 0, reason |-> STR_UNPARSEABLE]
    ELSE [decision |-> Upper(PyStr(DictGet(span, "decision", JStr(STR_REVIEW)))),
          idx |-> idx.n,
          reason |-> PyStr(DictGet(span, "reason", JStr(<<>>)))]

\* the parse whose failure leaves the reason empty instead of the fixed string
ParseSpanSilent(text, json_start, json_end) ==
    IF json_start < 0 \/ json_end <= json_start
    THEN [decision |-> STR_REVIEW, idx |-> 0, reason |-> <<>>]
    ELSE IF ~JsonValid(Slice(text, json_start, json_end))
    THEN [decision |-> STR_REVIEW, idx |-> 0, reason |-> <<>>]
    ELSE ParseObject(Slice(text, json_start, json_end),
                     PyInt(DictGet(Slice(text, json_start, json_end), "index", JInt(0))))

\* lines 273-277 with the bounds of the span
ParseSpan(text, json_start, json_end) ==
    IF json_start < 0 \/ json_end <= json_start
    THEN [decision |-> STR_REVIEW, idx |-> 0, reason |-> STR_UNPARSEABLE]
    ELSE IF ~JsonValid(Slice(text, json_start, json_end))
    THEN [decision |-> STR_REVIEW, idx |-> 0, reason |-> STR_UNPARSEABLE]
    ELSE ParseObject(Slice(text, json_start, json_end),
                     PyInt(DictGet(Slice(text, json_start, json_end), "index", JInt(0))))

\* the parse handing the whole text to json.loads, without cutting the span out
ParseResponseWholeText(text) == ParseSpan(text, 0, Len(text))

\* lines 272-282: the (decision, idx, reason) parsed from the text; whatever
\* raises on the way gives the same fixed triple
ParseResponse(text) == ParseSpan(text, Find(text, LBrace), RFind(text, RBrace) + 1)

\* the dispatch that takes NO_MATCH only together with the index 0 the prompt
\* asks for
DecideNoMatchAtZero(parsed, candidates, cf_records) ==
    IF parsed.decision = STR_MATCH /\ 1 <= parsed.idx /\ parsed.idx <= Len(candidates)
    THEN [decision |-> _format_accept(candidates[parsed.idx], cf_records),
          details |-> <<parsed.reason>>]
    ELSE IF parsed.decision = STR_NO_MATCH /\ parsed.idx = 0
    THEN [decision |-> PlainDecision("NO_MATCH", "(LLM)"), details |-> <<parsed.reason>>]
    ELSE [decision |-> PlainDecision("REVIEW", "(LLM)"), details |-> <<parsed.reason>>]

\* the dispatch whose last branch drops the mention instead of asking for review
DecideDroppingUnknown(parsed, candidates, cf_records) ==
    IF parsed.decision = STR_MATCH /\ 1 <= parsed.idx /\ parsed.idx <= Len(candidates)
    THEN [decision |-> _format_accept(candidates[parsed.idx], cf_records),
          details |-> <<parsed.reason>>]
    ELSE [decision |-> PlainDecision("NO_MATCH", "(LLM)"), details |-> <<parsed.reason>>]

\* lines 284-290: the decision from the parsed triple
Decide(parsed, candidates, cf_records) ==
    IF parsed.decision = STR_MATCH /\ 1 <= parsed.idx /\ parsed.idx <= Len(candidates)
    THEN [decision |-> _format_accept(candidates[parsed.idx], cf_records),
          details |-> <<parsed.reason>>]
    ELSE IF parsed.decision = STR_NO_MATCH
    THEN [decision |-> PlainDecision("NO_MATCH", "(LLM)"), details |-> <<parsed.reason>>]
    ELSE [decision |-> PlainDecision("REVIEW", "(LLM)"), details |-> <<parsed.reason>>]

\* line 264: the text of the first content block, "{}" when there is none
ResponseText(outcome) == IF outcome.kind = "empty" THEN <<LBrace, RBrace>> ELSE outcome.text

\* _llm_adjudicate treating a raised call like an unparseable answer: the
\* exception's message is lost
AdjudicateUniformFailure(mention_original, mention_normalized, candidates, cf_records, outcome) ==
    IF outcome.kind = "raise"
    THEN [decision |-> PlainDecision("REVIEW", "(LLM)"), details |-> <<STR_UNPARSEABLE>>]
    ELSE Decide(ParseResponse(ResponseText(outcome)), candidates, cf_records)

\* the (decision, details) _llm_adjudicate returns when the service call ends
\* as outcome
_llm_adjudicate(mention_original, mention_normalized, candidates, cf_records, outcome) ==
    IF outcome.kind = "raise"
    THEN [decision |-> PlainDecision("REVIEW", "(LLM error)"), details |-> <<outcome.msg>>]
    ELSE Decide(ParseResponse(ResponseText(outcome)), candidates, cf_records)

(***************************************************************************)
(* The inputs of a run: the `compare` section of the configuration and the *)
(* two CSV files.                                                          *)
(***************************************************************************)
\* rows the company CSV may hold, and rows the campaign-finance CSV may hold
MaxMentions == 2

MaxRecords == 2

CompareConfig(top_k, low_threshold, high_threshold) ==
    [top_k |-> top_k, low_threshold |-> low_threshold, high_threshold |-> high_threshold]

\* top_k positive, 0 <= low_threshold < high_threshold <= 100
CompareConfigs ==
    { CompareConfig(1, 60, 85), CompareConfig(2, 61, 85), CompareConfig(2, 60, 99) }

CompanyColumn == "Company/Organization Name"

CfColumns == <<"Contributor Name", "Contributor Employer">>

CfRow(name, employer) ==
    [col \in Range(CfColumns) |-> IF col = "Contributor Name" THEN name ELSE employer]

SampleRecords ==
    << CfRow(STR_ACME_WIDGETS_LLC, STR_OTHER),
       CfRow(STR_ACME_HOLDINGS, STR_RANDOM_HOUSE),
       CfRow(STR_UNRELATED, STR_ACME_INC),
       CfRow(STR_GLOBAL_FUND_ACME, STR_ACME_GLOBAL_FUND),
       CfRow(STR_ACME_WIDGETS_LLC, STR_OTHER) >>

SampleNames == {STR_ACME_FUND, STR_ACME_OTHERS, STR_RANDOM_CO, STR_BLANK}

SeqsUpTo(S, n) == UNION {[1..k -> S] : k \in 0..n}

CfFile(exists, fieldnames, rows) ==
    [exists |-> exists, fieldnames |-> fieldnames, rows |-> rows]

CfFiles ==
    { CfFile(TRUE, Range(CfColumns), SubSeq(SampleRecords, 1, k)) :
          k \in 0..Min(MaxRecords, Len(SampleRecords)) }
    \cup { CfFile(FALSE, Range(CfColumns), <<>>),
           CfFile(TRUE, {"Contributor Name"}, SubSeq(SampleRecords, 1, 1)),
           CfFile(TRUE, {"Contributor Employer"}, SubSeq(SampleRecords, 1, 1)) }

CompanyFile(suffix, fieldnames, rows) ==
    [suffix |-> suffix, fieldnames |-> fieldnames, rows |-> rows]

CompanyFiles ==
    { CompanyFile(STR_CSV, {CompanyColumn, "Article Title"}, rows) :
          rows \in SeqsUpTo(SampleNames, MaxMentions) }
    \cup { CompanyFile(STR_CSV_UPPER, {CompanyColumn}, <<STR_RANDOM_CO>>),
           CompanyFile(STR_TXT, {CompanyColumn}, <<STR_RANDOM_CO>>),
           CompanyFile(STR_CSV, {"Article Title"}, <<STR_RANDOM_CO>>) }

\* a response object with the three members the prompt asks for
Obj(decision, index, reason) ==
    <<LBrace, Pair("decision", decision), Pair("index", index), Pair("reason", reason), RBrace>>

ResponseTexts ==
    { Obj(JStr(STR_MATCH), JInt(1), JStr(STR_OK)),
      Obj(JStr(STR_MATCH), JInt(2), JStr(STR_OK)),
      Obj(JStr(STR_MATCH_LOWER), JInt(1), JStr(STR_OK)),
      Obj(JStr(STR_MATCH), JStr(STR_ONE), JStr(STR_OK)),
      Obj(JStr(STR_MATCH), JInt(0), JStr(STR_OK)),
      Obj(JStr(STR_MATCH), JInt(9), JStr(STR_OK)),
      Obj(JStr(STR_MATCH), JInt(3), JStr(STR_RANGE)),
      Obj(JStr(STR_MATCH), JNull, JStr(STR_OK)),
      <<LBrace, Pair("decision", JStr(STR_MATCH)), RBrace>>,
      <<LBrace, Pair("index", JInt(1)), Pair("reason", JStr(STR_OK)), RBrace>>,
      Obj(JStr(STR_NO_MATCH), JInt(0), JStr(STR_OK)),
      Obj(JStr(STR_NO_MATCH), JInt(1), JStr(STR_OK)),
      Obj(JStr(STR_NO_MATCH), JNull, JStr(STR_OK)),
      Obj(JStr(STR_NO_MATCH), JStr(STR_X), JStr(STR_OK)),
      Obj(JStr(STR_REVIEW), JInt(0), JStr(STR_OK)),
      Obj(JStr(STR_MAYBE), JInt(1), JStr(STR_OK)),
      Obj(JNull, JInt(1), JStr(STR_OK)),
      <<LBrace, RBrace>>,
      <<Prose>>,
      <<LBrace, Prose, RBrace>>,
      <<RBrace, Prose, LBrace>>,
      <<LBrace, Pair("decision", JStr(STR_MATCH)), Pair("index", JInt(1))>>,
      <<Prose>> \o Obj(JStr(STR_MATCH), JInt(1), JStr(STR_WRAPPED)) \o <<Prose>>,
      Obj(JStr(STR_NO_MATCH), JInt(0), JStr(STR_OK)) \o <<Prose, RBrace>>,
      Obj(JStr(STR_REVIEW), JInt(0), JStr(STR_OK)) \o <<Prose, LBrace>>,
      Obj(JStr(STR_MATCH), JInt(1), JStr(STR_OK)) \o Obj(JStr(STR_NO_MATCH), JInt(0), JStr(STR_OK)) }

ServiceOutcomes ==
    {Returns(text) : text \in ResponseTexts} \cup {NoContent, Raises(STR_BOOM), Raises(<<>>)}

(***************************************************************************)
(* CFMatcher.compare as a state machine.                                   *)
(***************************************************************************)
VARIABLES
    pc,              \* where compare() is
    config,          \* self._config.compare
    cf_file,         \* the campaign-finance CSV in the data directory
    company_file,    \* the company mentions CSV
    mentions,        \* compare's local: the loaded mentions
    cf_records,      \* compare's local: the loaded reference records
    cf_names,        \* compare's local: normalised contributor names
    cf_employers,    \* compare's local: normalised contributor employers
    report_created,  \* whether the report file exists
    report,          \* what has been written to the report, one element per write
    i,               \* which mention the loop is at, counted from 1
    cand,            \* the loop's local: the shortlist of the current mention
    request,         \* the prompt of the service call in progress
    response,        \* how the service call in progress ended
    requests,        \* every prompt the service has received, in order
    outcomes,        \* per mention handled so far, its decision and details
    error,           \* the exception compare() raised, "" if none
    helper,          \* a helper method called on its own, as the unit tests call it
    analysis,        \* a call of ClaudeAnalyzer.analyze_articles: its locals and position
    container,       \* a Container: its three cached instances and what it has constructed
    orchestrator     \* a call of NewsContributionOrchestrator.process_news_articles

vars == <<pc, config, cf_file, company_file, mentions, cf_records, cf_names, cf_employers,
          report_created, report, i, cand, request, response, requests, outcomes, error,
          helper, analysis, container, orchestrator>>

\* no helper is being called on its own
NoCall == [fn |-> "none"]

\* the other components of the application, which compare() does not touch
components == <<analysis, container, orchestrator>>

\* analyze_articles is not being called, no Container has been constructed,
\* process_news_articles is not being called
NoAnalysis == [pc |-> "none"]

NoContainer == [pc |-> "none"]

NoRun == [pc |-> "none"]

NoComponents ==
    /\ analysis = NoAnalysis
    /\ container = NoContainer
    /\ orchestrator = NoRun

NoRequest == BuildPrompt(<<>>, <<>>, <<>>, <<>>)

NoResponse == [kind |-> "none", msg |-> <<>>, text |-> <<>>]

Init ==
    /\ pc = "start"
    /\ config \in CompareConfigs
    /\ cf_file \in CfFiles
    /\ company_file \in CompanyFiles
    /\ mentions = <<>>
    /\ cf_records = <<>>
    /\ cf_names = <<>>
    /\ cf_employers = <<>>
    /\ report_created = FALSE
    /\ report = <<>>
    /\ i = 0
    /\ cand = <<>>
    /\ request = NoRequest
    /\ response = NoResponse
    /\ requests = <<>>
    /\ outcomes = <<>>
    /\ error = ""
    /\ helper = NoCall
    /\ NoComponents


\* CFMatcher._load_company_mentions, past its column check: the stripped,
\* non-empty names in file order
RECURSIVE LoadNames(_)
LoadNames(rows) ==
    IF Len(rows) = 0 THEN <<>>
    ELSE LET name == Strip(Head(rows))
         IN  IF Len(name) > 0 THEN <<name>> \o LoadNames(Tail(rows)) ELSE LoadNames(Tail(rows))

_load_company_mentions(file) == LoadNames(file.rows)

\* CFMatcher._load_cf_records, past its column check: the two required fields
\* of every row, stripped
_load_cf_records(file) ==
    [r \in DOMAIN file.rows |->
        [col \in Range(CfColumns) |-> Strip(file.rows[r][col])]]

\* one f.write(...): what is written and the values formatted into it
Written(kind, text, decision) == [kind |-> kind, text |-> text, decision |-> decision]

NoDecision == PlainDecision("", "")

RuleWidth == 40

\* lines 67-68: "Matches Report\n" and "=" * 40 + "\n\n"
ReportHeader ==
    << Written("Matches Report", <<>>, NoDecision),
       Written("rule", [k \in 1..RuleWidth |-> "="], NoDecision) >>

\* lines 103-108: the entry of one mention
ReportEntry(original, decision, details) ==
    << Written("Mention: ", original, NoDecision),
       Written("Decision: ", <<>>, decision) >>
    \o [d \in DOMAIN details |-> Written(" - ", details[d], NoDecision)]
    \o << Written("blank", <<>>, NoDecision) >>

\* max(cand, key=...): the first candidate with the highest score
BestCandidate(candidates) ==
    candidates[CHOOSE p \in DOMAIN candidates :
        /\ \A q \in DOMAIN candidates : CandScore(candidates[q]) <= CandScore(candidates[p])
        /\ \A q \in 1..(p - 1) : CandScore(candidates[q]) < CandScore(candidates[p])]

\* the gate without the check of line 83: an empty shortlist is not rejected
GateWithoutEmptyCheck(candidates, lo, hi) ==
    IF Len(candidates) = 0 THEN "ESCALATE"
    ELSE IF CandScore(BestCandidate(candidates)) <= lo THEN "REJECTED"
    ELSE "ESCALATE"

\* the gate with the boundary on the other side: a best score equal to lo escalates
GateExclusive(candidates, lo, hi) ==
    IF Len(candidates) = 0 THEN "REJECTED"
    ELSE IF CandScore(BestCandidate(candidates)) < lo THEN "REJECTED"
    ELSE "ESCALATE"

\* lines 80-93, the gate: hi is read and decides nothing
Gate(candidates, lo, hi) ==
    IF Len(candidates) = 0 THEN "REJECTED"
    ELSE IF CandScore(BestCandidate(candidates)) <= lo THEN "REJECTED"
    ELSE "ESCALATE"

Rejected == PlainDecision("REJECTED", "")

Outcome(decision, details) == [decision |-> decision, details |-> details]

\* the validation without the suffix check of lines 50-51
ValidateWithoutSuffixCheck ==
    /\ pc = "start"
    /\ IF ~cf_file.exists
       THEN pc' = "raised" /\ error' = "FileNotFoundError"
       ELSE pc' = "load" /\ error' = error
    /\ UNCHANGED <<components, helper, config, cf_file, company_file, mentions, cf_records,
                   cf_names, cf_employers, report_created, report, i, cand, request, response,
                   requests, outcomes>>

\* lines 44-54: the two checks before anything is read
Validate ==
    /\ pc = "start"
    /\ IF ~cf_file.exists
       THEN pc' = "raised" /\ error' = "FileNotFoundError"
       ELSE IF Lower(company_file.suffix) # STR_CSV
       THEN pc' = "raised" /\ error' = "ValueError"
       ELSE pc' = "load" /\ error' = error
    /\ UNCHANGED <<components, helper, config, cf_file, company_file, mentions, cf_records,
                   cf_names, cf_employers, report_created, report, i, cand, request, response,
                   requests, outcomes>>

\* lines 56-63: both files are read, each after its column check, and the two
\* search spaces are built
Load ==
    /\ pc = "load"
    /\ IF \/ CompanyColumn \notin company_file.fieldnames
          \/ \E c \in DOMAIN CfColumns : CfColumns[c] \notin cf_file.fieldnames
       THEN /\ pc' = "raised"
            /\ error' = "ValueError"
            /\ UNCHANGED <<mentions, cf_records, cf_names, cf_employers>>
       ELSE /\ pc' = "open"
            /\ error' = error
            /\ mentions' = _load_company_mentions(company_file)
            /\ cf_records' = _load_cf_records(cf_file)
            /\ cf_names' = [r \in DOMAIN cf_records' |->
                               _normalize(cf_records'[r]["Contributor Name"])]
            /\ cf_employers' = [r \in DOMAIN cf_records' |->
                                   _normalize(cf_records'[r]["Contributor Employer"])]
    /\ UNCHANGED <<components, helper, config, cf_file, company_file, report_created, report, i,
                   cand, request, response, requests, outcomes>>

\* lines 65-68: the report file is created and its header written
OpenReport ==
    /\ pc = "open"
    /\ report_created' = TRUE
    /\ report' = ReportHeader
    /\ i' = 1
    /\ pc' = "loop"
    /\ UNCHANGED <<components, helper, config, cf_file, company_file, mentions, cf_records,
                   cf_names, cf_employers, cand, request, response, requests, outcomes, error>>

\* the loop body with a high band that accepts on the score: a best score above
\* high_threshold writes an ACCEPT for the best candidate without a service call
ProcessMentionAutoAccept ==
    /\ pc = "loop"
    /\ i <= Len(mentions)
    /\ \E shortlist \in {_shortlist_candidates(_normalize(mentions[i]), cf_names, cf_employers,
                                               config.top_k)} :
          IF Gate(shortlist, config.low_threshold, config.high_threshold) = "REJECTED"
          THEN /\ outcomes' = Append(outcomes, Outcome(Rejected, <<>>))
               /\ i' = i + 1
               /\ UNCHANGED <<pc, cand, request, report>>
          ELSE IF CandScore(BestCandidate(shortlist)) > config.high_threshold
          THEN /\ outcomes' = Append(outcomes,
                                     Outcome(_format_accept(BestCandidate(shortlist), cf_records),
                                             <<>>))
               /\ report' = report \o ReportEntry(mentions[i],
                                                  _format_accept(BestCandidate(shortlist),
                                                                 cf_records), <<>>)
               /\ i' = i + 1
               /\ UNCHANGED <<pc, cand, request>>
          ELSE /\ cand' = shortlist
               /\ request' = BuildPrompt(mentions[i], _normalize(mentions[i]), shortlist,
                                         cf_records)
               /\ pc' = "call"
               /\ UNCHANGED <<outcomes, i, report>>
    /\ UNCHANGED <<components, helper, config, cf_file, company_file, mentions, cf_records,
                   cf_names, cf_employers, report_created, response, requests, error>>

\* the loop body with a shortlister that consumes its search spaces: an
\* escalated mention leaves only the shortlisted records in the corpora
ProcessMentionTrimming ==
    /\ pc = "loop"
    /\ i <= Len(mentions)
    /\ \E shortlist \in {_shortlist_candidates(_normalize(mentions[i]), cf_names, cf_employers,
                                               config.top_k)} :
          IF Gate(shortlist, config.low_threshold, config.high_threshold) = "REJECTED"
          THEN /\ outcomes' = Append(outcomes, Outcome(Rejected, <<>>))
               /\ i' = i + 1
               /\ UNCHANGED <<pc, cand, request, cf_records, cf_names, cf_employers>>
          ELSE /\ cand' = shortlist
               /\ request' = BuildPrompt(mentions[i], _normalize(mentions[i]), shortlist,
                                         cf_records)
               /\ pc' = "call"
               /\ cf_records' = [k \in DOMAIN shortlist |-> cf_records[shortlist[k].index + 1]]
               /\ cf_names' = [k \in DOMAIN shortlist |-> shortlist[k].contributor_name]
               /\ cf_employers' = [k \in DOMAIN shortlist |-> shortlist[k].contributor_employer]
               /\ UNCHANGED <<outcomes, i>>
    /\ UNCHANGED <<components, helper, config, cf_file, company_file, mentions,
                   report_created, report, response, requests, error>>

\* lines 70-98, one mention up to the point where the service is called: it is
\* normalised, shortlisted and gated; a rejected mention is skipped
ProcessMention ==
    /\ pc = "loop"
    /\ i <= Len(mentions)
    /\ \E shortlist \in {_shortlist_candidates(_normalize(mentions[i]), cf_names, cf_employers,
                                               config.top_k)} :
          IF Gate(shortlist, config.low_threshold, config.high_threshold) = "REJECTED"
          THEN /\ outcomes' = Append(outcomes, Outcome(Rejected, <<>>))
               /\ i' = i + 1
               /\ UNCHANGED <<pc, cand, request>>
          ELSE /\ cand' = shortlist
               /\ request' = BuildPrompt(mentions[i], _normalize(mentions[i]), shortlist,
                                         cf_records)
               /\ pc' = "call"
               /\ UNCHANGED <<outcomes, i>>
    /\ UNCHANGED <<components, helper, config, cf_file, company_file, mentions, cf_records,
                   cf_names, cf_employers, report_created, report, response, requests, error>>

\* the call with one retry: a call that raises is made a second time
ServiceRespondsRetrying ==
    /\ pc = "call"
    /\ \E outcome \in ServiceOutcomes :
          /\ response' = outcome
          /\ requests' = IF outcome.kind = "raise" THEN requests \o <<request, request>>
                         ELSE Append(requests, request)
    /\ pc' = "adjudicate"
    /\ UNCHANGED <<components, helper, config, cf_file, company_file, mentions, cf_records,
                   cf_names, cf_employers, report_created, report, i, cand, request, outcomes,
                   error>>

\* lines 258-263, the service's side: it receives the prompt and the call ends
ServiceResponds ==
    /\ pc = "call"
    /\ \E outcome \in ServiceOutcomes : response' = outcome
    /\ requests' = Append(requests, request)
    /\ pc' = "adjudicate"
    /\ UNCHANGED <<components, helper, config, cf_file, company_file, mentions, cf_records,
                   cf_names, cf_employers, report_created, report, i, cand, request, outcomes,
                   error>>

\* the adjudication step without the suppression of lines 99-101: every
\* adjudicated mention is written
AdjudicateWritingNoMatch ==
    /\ pc = "adjudicate"
    /\ \E result \in {_llm_adjudicate(mentions[i], _normalize(mentions[i]), cand, cf_records,
                                      response)} :
          /\ outcomes' = Append(outcomes, Outcome(result.decision, result.details))
          /\ report' = report \o ReportEntry(mentions[i], result.decision, result.details)
    /\ i' = i + 1
    /\ cand' = <<>>
    /\ request' = NoRequest
    /\ response' = NoResponse
    /\ pc' = "loop"
    /\ UNCHANGED <<components, helper, config, cf_file, company_file, mentions, cf_records,
                   cf_names, cf_employers, report_created, requests, error>>

\* the adjudication step without the except clause of lines 265-267: an
\* exception of the service call leaves compare()
AdjudicateAborting ==
    /\ pc = "adjudicate"
    /\ IF response.kind = "raise"
       THEN /\ pc' = "raised"
            /\ error' = "Exception"
            /\ UNCHANGED <<outcomes, report, i, cand, request, response>>
       ELSE /\ \E result \in {_llm_adjudicate(mentions[i], _normalize(mentions[i]), cand,
                                               cf_records, response)} :
                  /\ outcomes' = Append(outcomes, Outcome(result.decision, result.details))
                  /\ report' =
                        IF StartsWith(result.decision, "NO_MATCH") THEN report
                        ELSE report \o ReportEntry(mentions[i], result.decision, result.details)
            /\ i' = i + 1
            /\ cand' = <<>>
            /\ request' = NoRequest
            /\ response' = NoResponse
            /\ pc' = "loop"
            /\ error' = error
    /\ UNCHANGED <<components, helper, config, cf_file, company_file, mentions, cf_records,
                   cf_names, cf_employers, report_created, requests>>

\* the adjudication step writing at the top of the report: the entry of the
\* mention is put right after the header, before the entries written so far
AdjudicatePrepending ==
    /\ pc = "adjudicate"
    /\ \E result \in {_llm_adjudicate(mentions[i], _normalize(mentions[i]), cand, cf_records,
                                      response)} :
          /\ outcomes' = Append(outcomes, Outcome(result.decision, result.details))
          /\ report' =
                IF StartsWith(result.decision, "ACCEPT") \/ StartsWith(result.decision, "REVIEW")
                THEN ReportHeader
                     \o ReportEntry(mentions[i], result.decision, result.details)
                     \o SubSeq(report, Len(ReportHeader) + 1, Len(report))
                ELSE report
    /\ i' = i + 1
    /\ cand' = <<>>
    /\ request' = NoRequest
    /\ response' = NoResponse
    /\ pc' = "loop"
    /\ UNCHANGED <<components, helper, config, cf_file, company_file, mentions, cf_records,
                   cf_names, cf_employers, report_created, requests, error>>

\* lines 264-290 and 99-108: the decision is taken from how the call ended and the
\* mention is written or suppressed
Adjudicate ==
    /\ pc = "adjudicate"
    /\ \E result \in {_llm_adjudicate(mentions[i], _normalize(mentions[i]), cand, cf_records,
                                      response)} :
          /\ outcomes' = Append(outcomes, Outcome(result.decision, result.details))
          /\ report' =
                IF StartsWith(result.decision, "NO_MATCH") THEN report
                ELSE IF StartsWith(result.decision, "ACCEPT")
                        \/ StartsWith(result.decision, "REVIEW")
                THEN report \o ReportEntry(mentions[i], result.decision, result.details)
                ELSE report
    /\ i' = i + 1
    /\ cand' = <<>>
    /\ request' = NoRequest
    /\ response' = NoResponse
    /\ pc' = "loop"
    /\ UNCHANGED <<components, helper, config, cf_file, company_file, mentions, cf_records,
                   cf_names, cf_employers, report_created, requests, error>>

\* lines 110-111: the loop is over, the file is closed and its path returned
Finish ==
    /\ pc = "loop"
    /\ i > Len(mentions)
    /\ pc' = "done"
    /\ UNCHANGED <<components, helper, config, cf_file, company_file, mentions, cf_records,
                   cf_names, cf_employers, report_created, report, i, cand, request, response,
                   requests, outcomes, error>>

Next ==
    \/ Validate
    \/ Load
    \/ OpenReport
    \/ ProcessMention
    \/ ServiceResponds
    \/ Adjudicate
    \/ Finish

Spec == Init /\ [][Next]_vars

\* compare() is one sequential call: a step that can be taken is taken, and the
\* service call returns or raises (the client's timeout)
LiveSpec == Spec /\ WF_vars(Next)

(***************************************************************************)
(* The helpers called on their own on a CFMatcher, as                      *)
(* test_shortlist_candidates_and_normalize calls them: compare() is not    *)
(* running.                                                                *)
(***************************************************************************)
compare_vars ==
    <<pc, config, cf_file, company_file, mentions, cf_records, cf_names, cf_employers,
      report_created, report, i, cand, request, response, requests, outcomes, error>>

NotComparing ==
    /\ pc = "idle"
    /\ config = CompareConfig(1, 60, 85)
    /\ cf_file = CfFile(FALSE, {}, <<>>)
    /\ company_file = CompanyFile(STR_CSV, {}, <<>>)
    /\ mentions = <<>>
    /\ cf_records = <<>>
    /\ cf_names = <<>>
    /\ cf_employers = <<>>
    /\ report_created = FALSE
    /\ report = <<>>
    /\ i = 0
    /\ cand = <<>>
    /\ request = NoRequest
    /\ response = NoResponse
    /\ requests = <<>>
    /\ outcomes = <<>>
    /\ error = ""

RECURSIVE Concat(_)
\* "".join(parts)
Concat(parts) == IF Len(parts) = 0 THEN <<>> ELSE Head(parts) \o Concat(Tail(parts))

\* pieces an argument of _normalize is put together from, and how many of them
MaxPieces == 3

NormPieces ==
    { <<"C","o">>, <<"c","o">>, <<"I","n","c">>, <<"L",".","L",".","C",".">>,
      <<"l","l","c">>, <<"x">>, <<"7">>, <<" ">>, <<"\t">>, <<".">>, <<",">>, <<"_">>, <<"-">> }

\* s.title() of a single word
TitleCase(s) == <<UpperChar(s[1])>> \o Tail(s)

\* every listed suffix in lower case, in upper case and capitalised
CasedSuffixes ==
    UNION { {suffix, Upper(suffix), TitleCase(suffix)} : suffix \in Range(SuffixAlternatives) }

STR_ACME == <<"A","c","m","e">>

STR_ACME_LOWER == <<"a","c","m","e">>

STR_COCO == <<"C","o","c","o">>

NormNames == {<<>>, STR_ACME, STR_ACME \o <<",">>, STR_COCO, STR_ACME_WIDGETS_LLC}

\* name + " " + suffix
SuffixedNames == {name \o <<" ">> \o suffix : name \in NormNames, suffix \in CasedSuffixes}

NormInputs ==
    {Concat(parts) : parts \in SeqsUpTo(NormPieces, MaxPieces)}
        \cup NormNames \cup SuffixedNames \cup {None, STR_ACME_INC}

\* the nth call of _normalize in a row, on s
NormalizeCalled(s, nth) ==
    [fn |-> "_normalize", s |-> s, nth |-> nth, returned |-> FALSE, ret |-> <<>>]

NormInit ==
    /\ NotComparing
    /\ NoComponents
    /\ helper \in {NormalizeCalled(s, 1) : s \in NormInputs}

\* matcher._normalize(s) returns
Normalize ==
    /\ helper.fn = "_normalize"
    /\ ~helper.returned
    /\ helper' = [helper EXCEPT !.returned = TRUE, !.ret = _normalize(helper.s)]
    /\ UNCHANGED <<compare_vars, components>>

\* the result is normalised again: matcher._normalize(matcher._normalize(s))
NormalizeAgain ==
    /\ helper.fn = "_normalize"
    /\ helper.returned
    /\ helper.nth = 1
    /\ helper' = NormalizeCalled(helper.ret, 2)
    /\ UNCHANGED <<compare_vars, components>>

NormNext ==
    \/ Normalize
    \/ NormalizeAgain

NormSpec == NormInit /\ [][NormNext]_vars

\* the normalised strings _shortlist_candidates is called on
NORM_ACME_GLOBAL_FUND == _normalize(STR_ACME_GLOBAL_FUND)

NORM_GLOBAL_FUND_ACME == _normalize(STR_GLOBAL_FUND_ACME)

NORM_ACME_WIDGETS == _normalize(STR_ACME_WIDGETS_LLC)

NORM_RANDOM_HOUSE == _normalize(STR_RANDOM_HOUSE)

NORM_OTHER == _normalize(STR_OTHER)

NORM_ACME_FUNDS == <<"a","c","m","e"," ","f","u","n","d","s">>

NORM_GLOBAL == <<"g","l","o","b","a","l">>

\* how many records the reference lists hold, and the largest top_k
MaxCorpus == 3

MaxTopK == 3

\* (name, employer) of a reference record, both normalised
NormRecords ==
    { <<NORM_ACME_GLOBAL_FUND, NORM_OTHER>>,
      <<NORM_GLOBAL_FUND_ACME, NORM_ACME_GLOBAL_FUND>>,
      <<NORM_ACME_WIDGETS, NORM_RANDOM_HOUSE>>,
      <<NORM_OTHER, NORM_ACME_WIDGETS>>,
      <<<<>>, NORM_GLOBAL>> }

NormQueries == {NORM_ACME_FUNDS, NORM_ACME_WIDGETS, NORM_GLOBAL, <<>>}

\* _shortlist_candidates(norm_mention, cf_names, cf_employers, top_k) is called
ShortlistCalled(norm_mention, names, employers, top_k) ==
    [fn |-> "_shortlist_candidates", norm_mention |-> norm_mention, cf_names |-> names,
     cf_employers |-> employers, top_k |-> top_k, returned |-> FALSE, ret |-> <<>>]

\* the two reference lists are parallel: position r of each is record r
ShortlistInit ==
    /\ NotComparing
    /\ NoComponents
    /\ helper \in
          { ShortlistCalled(norm_mention,
                            [r \in DOMAIN records |-> records[r][1]],
                            [r \in DOMAIN records |-> records[r][2]], top_k) :
                norm_mention \in NormQueries,
                records \in SeqsUpTo(NormRecords, MaxCorpus),
                top_k \in 1..MaxTopK }

\* matcher._shortlist_candidates(...) returns
Shortlist ==
    /\ helper.fn = "_shortlist_candidates"
    /\ ~helper.returned
    /\ helper' = [helper EXCEPT
                      !.returned = TRUE,
                      !.ret = _shortlist_candidates(helper.norm_mention, helper.cf_names,
                                                    helper.cf_employers, helper.top_k)]
    /\ UNCHANGED <<compare_vars, components>>

ShortlistNext == Shortlist

ShortlistSpec == ShortlistInit /\ [][ShortlistNext]_vars

\* scores a candidate may carry
SampleScores == {0, 1, 61, 62, 100}

\* the candidate of record idx (counted from 0) with the two scores
CandidateOf(records, idx, name_score, employer_score) ==
    CFMatchCandidate(idx,
                     _normalize(records[idx + 1]["Contributor Name"]),
                     _normalize(records[idx + 1]["Contributor Employer"]),
                     name_score, employer_score)

\* _format_accept(c, records) is called
FormatAcceptCalled(c, records) ==
    [fn |-> "_format_accept", cand |-> c, cf_records |-> records,
     returned |-> FALSE, ret |-> NoDecision]

FormatInit ==
    /\ NotComparing
    /\ NoComponents
    /\ helper \in
          { FormatAcceptCalled(CandidateOf(call[1], call[2], call[3], call[4]), call[1]) :
                call \in { c \in SeqsUpTo(Range(SampleRecords), MaxRecords)
                                  \X (0..(MaxRecords - 1)) \X SampleScores \X SampleScores :
                              c[2] < Len(c[1]) } }

\* matcher._format_accept(cand, cf_records) returns
FormatAccept ==
    /\ helper.fn = "_format_accept"
    /\ ~helper.returned
    /\ helper' = [helper EXCEPT !.returned = TRUE,
                                !.ret = _format_accept(helper.cand, helper.cf_records)]
    /\ UNCHANGED <<compare_vars, components>>

FormatNext == FormatAccept

FormatSpec == FormatInit /\ [][FormatNext]_vars

(***************************************************************************)
(* ClaudeAnalyzer.analyze_articles as a state machine.                     *)
(***************************************************************************)
\* how many articles a list holds
MaxArticles == 3

Article(title, source, date, content) ==
    [title |-> title, source |-> source, date |-> date, content |-> content]

\* two of the articles share a title
SampleArticles ==
    { Article("Article 1", "Source 1", "2024-01-15", "Content 1"),
      Article("Article 2", "Source 2", "2024-01-16", "Content 2"),
      Article("Article 1", "Source 2", "2024-01-17", "Content 3") }

CompanyMention(company_name, description) ==
    [company_name |-> company_name, description |-> description]

ArticleAnalysis(article_title, publication_source, publication_date, company_mentions) ==
    [article_title |-> article_title,
     publication_source |-> publication_source,
     publication_date |-> publication_date,
     company_mentions |-> company_mentions]

SampleMentionLists == { <<>>, <<CompanyMention("Acme Corp", "Maker of widgets")>> }

NoAnalysisResult == ArticleAnalysis("", "", "", <<>>)

\* how self.analyze_article(article) ends: it returns the analysis
\* _parse_response builds for the article, or it raises (ClaudeAPIError from the
\* method itself, any Exception from a stand-in for it)
AnalyzeOutcomes(article) ==
    { [kind |-> "return", error |-> "",
       analysis |-> ArticleAnalysis(article.title, article.source, article.date, found)] :
          found \in SampleMentionLists }
    \cup { [kind |-> "raise", error |-> e, analysis |-> NoAnalysisResult] :
               e \in {"ClaudeAPIError", "Exception"} }

\* analyze_articles(articles) has been entered: lines 116-118
AnalyzeStarted(articles) ==
    [pc |-> "loop", articles |-> articles, i |-> 1, results |-> <<>>,
     successful_analyses |-> 0, failed_analyses |-> 0, calls |-> <<>>, error |-> ""]

\* one call of analyze_article, as the analyzer's client sees it
AnalyzeCall(article, outcome) == [article |-> article, outcome |-> outcome]

AnalyzeInit ==
    /\ NotComparing
    /\ helper = NoCall
    /\ container = NoContainer
    /\ orchestrator = NoRun
    /\ analysis \in {AnalyzeStarted(articles) : articles \in SeqsUpTo(SampleArticles, MaxArticles)}

\* the loop body without its try: an exception of analyze_article leaves
\* analyze_articles
AnalyzeArticleUnguarded ==
    /\ analysis.pc = "loop"
    /\ analysis.i <= Len(analysis.articles)
    /\ \E outcome \in AnalyzeOutcomes(analysis.articles[analysis.i]) :
          analysis' =
             IF outcome.kind = "return"
             THEN [analysis EXCEPT
                      !.results = Append(@, outcome.analysis),
                      !.successful_analyses = @ + 1,
                      !.calls = Append(@, AnalyzeCall(analysis.articles[analysis.i], outcome)),
                      !.i = @ + 1]
             ELSE [analysis EXCEPT
                      !.pc = "raised",
                      !.error = outcome.error,
                      !.calls = Append(@, AnalyzeCall(analysis.articles[analysis.i], outcome))]
    /\ UNCHANGED <<compare_vars, helper, container, orchestrator>>

\* lines 120-143, one turn of the loop: the article is analysed and its
\* analysis appended, or, when analyze_article raises, an analysis with the
\* article's title, source and date and no mention is appended
AnalyzeArticle ==
    /\ analysis.pc = "loop"
    /\ analysis.i <= Len(analysis.articles)
    /\ \E outcome \in AnalyzeOutcomes(analysis.articles[analysis.i]) :
          analysis' =
             IF outcome.kind = "return"
             THEN [analysis EXCEPT
                      !.results = Append(@, outcome.analysis),
                      !.successful_analyses = @ + 1,
                      !.calls = Append(@, AnalyzeCall(analysis.articles[analysis.i], outcome)),
                      !.i = @ + 1]
             ELSE [analysis EXCEPT
                      !.results = Append(@, ArticleAnalysis(analysis.articles[analysis.i].title,
                                                            analysis.articles[analysis.i].source,
                                                            analysis.articles[analysis.i].date,
                                                            <<>>)),
                      !.failed_analyses = @ + 1,
                      !.calls = Append(@, AnalyzeCall(analysis.articles[analysis.i], outcome)),
                      !.i = @ + 1]
    /\ UNCHANGED <<compare_vars, helper, container, orchestrator>>

\* lines 145-153: the loop is over, the totals are logged and results returned
AnalyzeReturn ==
    /\ analysis.pc = "loop"
    /\ analysis.i > Len(analysis.articles)
    /\ analysis' = [analysis EXCEPT !.pc = "returned"]
    /\ UNCHANGED <<compare_vars, helper, container, orchestrator>>

AnalyzeNext ==
    \/ AnalyzeArticle
    \/ AnalyzeReturn

AnalyzeSpec == AnalyzeInit /\ [][AnalyzeNext]_vars

(***************************************************************************)
(* Container: the three getters and reset, called in any order.            *)
(***************************************************************************)
\* how many calls are made on one Container
MaxCalls == 5

\* an argument left out, or None
NotGiven == "None"

\* config.data_directory and config.output_directory
ConfigDataDirectory == "data"

ConfigOutputDirectory == "output"

\* directories get_document_processor is called with
DataDirectories == {NotGiven, "custom_data"}

\* directories get_csv_exporter is called with; mkdir fails on the last one
ReadOnlyDirectory == "/proc/output"

OutputDirectories == {NotGiven, "custom_output", ReadOnlyDirectory}

\* an object a constructor returned: its class, which construction it was
\* (its identity) and the argument it was constructed with
Instance(cls, id, arg) == [cls |-> cls, id |-> id, arg |-> arg]

\* self._x is None
NoInstance == Instance("None", 0, "")

\* one call on the container as its caller sees it: whether it invoked the
\* class's constructor, the exception it raised ("" if none) and what it
\* returned
ContainerCall(op, arg, invoked, raised, ret) ==
    [op |-> op, arg |-> arg, invoked |-> invoked, raised |-> raised, ret |-> ret]

\* Container.__init__, lines 26-30; api_key is ANTHROPIC_API_KEY in the
\* environment, constructed counts the instances constructed so far
ContainerCreated(api_key) ==
    [pc |-> "ready", api_key |-> api_key,
     _claude_analyzer |-> NoInstance,
     _document_processor |-> NoInstance,
     _csv_exporter |-> NoInstance,
     constructed |-> 0,
     calls |-> <<>>]

ContainerInit ==
    /\ NotComparing
    /\ helper = NoCall
    /\ analysis = NoAnalysis
    /\ orchestrator = NoRun
    /\ container \in {ContainerCreated(api_key) : api_key \in {"", "test-api-key"}}

\* lines 55-74
GetClaudeAnalyzer ==
    /\ container.pc = "ready"
    /\ Len(container.calls) < MaxCalls
    /\ container' =
          IF container._claude_analyzer # NoInstance
          THEN [container EXCEPT
                   !.calls = Append(@, ContainerCall("get_claude_analyzer", NotGiven, FALSE, "",
                                                     container._claude_analyzer))]
          ELSE IF container.api_key = ""
          THEN [container EXCEPT
                   !.calls = Append(@, ContainerCall("get_claude_analyzer", NotGiven, FALSE,
                                                     "ConfigurationError", NoInstance))]
          ELSE [container EXCEPT
                   !._claude_analyzer =
                       Instance("ClaudeAnalyzer", container.constructed + 1, container.api_key),
                   !.constructed = @ + 1,
                   !.calls = Append(@, ContainerCall("get_claude_analyzer", NotGiven, TRUE, "",
                                       Instance("ClaudeAnalyzer", container.constructed + 1,
                                                container.api_key)))]
    /\ UNCHANGED <<compare_vars, helper, analysis, orchestrator>>

\* the getter that keeps one processor per directory in the single slot: a
\* call with another directory constructs anew
GetDocumentProcessorByDirectory ==
    /\ container.pc = "ready"
    /\ Len(container.calls) < MaxCalls
    /\ \E data_directory \in DataDirectories :
       \E directory \in {IF data_directory = NotGiven THEN ConfigDataDirectory
                          ELSE data_directory} :
          container' =
             IF container._document_processor # NoInstance
                /\ container._document_processor.arg = directory
             THEN [container EXCEPT
                      !.calls = Append(@, ContainerCall("get_document_processor", data_directory,
                                                        FALSE, "", container._document_processor))]
             ELSE [container EXCEPT
                      !._document_processor =
                          Instance("DocumentProcessor", container.constructed + 1, directory),
                      !.constructed = @ + 1,
                      !.calls = Append(@, ContainerCall("get_document_processor", data_directory,
                                          TRUE, "",
                                          Instance("DocumentProcessor", container.constructed + 1,
                                                   directory)))]
    /\ UNCHANGED <<compare_vars, helper, analysis, orchestrator>>

\* lines 76-103
GetDocumentProcessor ==
    /\ container.pc = "ready"
    /\ Len(container.calls) < MaxCalls
    /\ \E data_directory \in DataDirectories :
       \E directory \in {IF data_directory = NotGiven THEN ConfigDataDirectory
                          ELSE data_directory} :
          container' =
             IF container._document_processor # NoInstance
             THEN [container EXCEPT
                      !.calls = Append(@, ContainerCall("get_document_processor", data_directory,
                                                        FALSE, "", container._document_processor))]
             ELSE [container EXCEPT
                      !._document_processor =
                          Instance("DocumentProcessor", container.constructed + 1, directory),
                      !.constructed = @ + 1,
                      !.calls = Append(@, ContainerCall("get_document_processor", data_directory,
                                          TRUE, "",
                                          Instance("DocumentProcessor", container.constructed + 1,
                                                   directory)))]
    /\ UNCHANGED <<compare_vars, helper, analysis, orchestrator>>

\* lines 105-132; CSVExporter.__init__ makes the directory and raises when it
\* cannot
GetCsvExporter ==
    /\ container.pc = "ready"
    /\ Len(container.calls) < MaxCalls
    /\ \E output_directory \in OutputDirectories :
       \E directory \in {IF output_directory = NotGiven THEN ConfigOutputDirectory
                          ELSE output_directory} :
          container' =
             IF container._csv_exporter # NoInstance
             THEN [container EXCEPT
                      !.calls = Append(@, ContainerCall("get_csv_exporter", output_directory,
                                                        FALSE, "", container._csv_exporter))]
             ELSE IF directory = ReadOnlyDirectory
             THEN [container EXCEPT
                      !.calls = Append(@, ContainerCall("get_csv_exporter", output_directory,
                                                        TRUE, "OSError", NoInstance))]
             ELSE [container EXCEPT
                      !._csv_exporter =
                          Instance("CSVExporter", container.constructed + 1, directory),
                      !.constructed = @ + 1,
                      !.calls = Append(@, ContainerCall("get_csv_exporter", output_directory,
                                          TRUE, "",
                                          Instance("CSVExporter", container.constructed + 1,
                                                   directory)))]
    /\ UNCHANGED <<compare_vars, helper, analysis, orchestrator>>

\* the reset that leaves the cached analyzer in place
ResetKeepingAnalyzer ==
    /\ container.pc = "ready"
    /\ Len(container.calls) < MaxCalls
    /\ container' = [container EXCEPT
                        !._document_processor = NoInstance,
                        !._csv_exporter = NoInstance,
                        !.calls = Append(@, ContainerCall("reset", NotGiven, FALSE, "",
                                                          NoInstance))]
    /\ UNCHANGED <<compare_vars, helper, analysis, orchestrator>>

\* lines 134-138
Reset ==
    /\ container.pc = "ready"
    /\ Len(container.calls) < MaxCalls
    /\ container' = [container EXCEPT
                        !._claude_analyzer = NoInstance,
                        !._document_processor = NoInstance,
                        !._csv_exporter = NoInstance,
                        !.calls = Append(@, ContainerCall("reset", NotGiven, FALSE, "",
                                                          NoInstance))]
    /\ UNCHANGED <<compare_vars, helper, analysis, orchestrator>>

ContainerNext ==
    \/ GetClaudeAnalyzer
    \/ GetDocumentProcessor
    \/ GetCsvExporter
    \/ Reset

ContainerSpec == ContainerInit /\ [][ContainerNext]_vars

(***************************************************************************)
(* NewsContributionOrchestrator.process_news_articles as a state machine.  *)
(***************************************************************************)
\* how many articles the document processor returns
MaxExtracted == 2

\* exception(message, cause=e); NoError stands for no exception
StageError(type, message, cause) == [type |-> type, message |-> message, cause |-> cause]

NoError == StageError("None", "", "")

\* self._logger.<level>(message), n the number the message carries
LogEntry(level, message, n, e) ==
    [level |-> level, message |-> message, n |-> n, error |-> e]

\* a call the orchestrator makes on one of its components: on the injected
\* one ("self") or on one it constructs for the directory it was given ("new")
ComponentCall(component, target, op, arg) ==
    [component |-> component, target |-> target, op |-> op, arg |-> arg]

ResultFiles(main_results, summary_stats) ==
    [main_results |-> main_results, summary_stats |-> summary_stats]

ProcessingSummary(total_articles, articles_with_mentions, total_mentions, unique_companies) ==
    [total_articles |-> total_articles,
     articles_with_mentions |-> articles_with_mentions,
     total_mentions |-> total_mentions,
     unique_companies |-> unique_companies]

ProcessingResult(articles, analyses, result_files, summary) ==
    [articles |-> articles, analyses |-> analyses,
     result_files |-> result_files, summary |-> summary]

\* ProcessingResult.empty()
EmptyResult ==
    ProcessingResult(<<>>, <<>>, ResultFiles("", ""), ProcessingSummary(0, 0, 0, 0))

NoResult == ProcessingResult(<<>>, <<>>, ResultFiles("None", "None"), ProcessingSummary(0, 0, 0, 0))

\* the mentions an analysis may hold; two of the names differ in case only
FoundMentionLists ==
    { <<>>,
      <<CompanyMention("Company A", "Description A")>>,
      <<CompanyMention("company a", "Description B"),
        CompanyMention("Company B", "Description C")>> }

\* str.lower() on the company names above
LowerName(company_name) ==
    CASE company_name = "Company A" -> "company a"
      [] company_name = "Company B" -> "company b"
      [] OTHER -> company_name

RECURSIVE TotalMentions(_)
TotalMentions(analyses) ==
    IF analyses = <<>> THEN 0
    ELSE Len(Head(analyses).company_mentions) + TotalMentions(Tail(analyses))

_generate_summary(analyses) ==
    ProcessingSummary(
        Len(analyses),
        Cardinality({k \in DOMAIN analyses : analyses[k].company_mentions # <<>>}),
        TotalMentions(analyses),
        Cardinality(UNION { {LowerName(analyses[k].company_mentions[m].company_name) :
                                 m \in DOMAIN analyses[k].company_mentions} :
                            k \in DOMAIN analyses }))

\* how process_all_files() ends
ExtractOutcomes ==
    { [kind |-> "return", articles |-> articles, error |-> ""] :
          articles \in SeqsUpTo(SampleArticles, MaxExtracted) }
    \cup { [kind |-> "raise", articles |-> <<>>, error |-> e] :
               e \in {"FileNotFoundError", "Exception"} }

\* how self._claude_analyzer.analyze_articles(articles) ends: one analysis for
\* each article in order, or an exception of a stand-in for the analyzer
AnalysesOutcomes(articles) ==
    { [kind |-> "return", error |-> "",
       analyses |-> [k \in DOMAIN articles |->
                        ArticleAnalysis(articles[k].title, articles[k].source,
                                        articles[k].date, found[k])]] :
          found \in [DOMAIN articles -> FoundMentionLists] }
    \cup { [kind |-> "raise", error |-> "Exception", analyses |-> <<>>] }

\* the directory the exporter of a run writes to
ExportDirectory(output_directory) ==
    IF output_directory # NotGiven THEN output_directory ELSE ConfigOutputDirectory

\* how the export ends: both files written, or an exception in the
\* constructor (a directory that cannot be made), in export_results or in
\* export_summary_stats
ExportOutcomes(output_directory) ==
    IF output_directory = ReadOnlyDirectory
    THEN { [kind |-> "raise", at |-> "CSVExporter", error |-> "OSError"] }
    ELSE { [kind |-> "return", at |-> "", error |-> ""] }
         \cup { [kind |-> "raise", at |-> op, error |-> "CSVExportError"] :
                    op \in {"export_results", "export_summary_stats"} }

\* process_news_articles(data_directory, output_directory) has been entered:
\* line 64
RunStarted(data_directory, output_directory) ==
    [pc |-> "extract",
     data_directory |-> data_directory, output_directory |-> output_directory,
     articles |-> <<>>, analyses |-> <<>>, result_files |-> ResultFiles("None", "None"),
     calls |-> <<>>,
     log |-> <<LogEntry("info", "Starting news contribution analysis", 0, NoError)>>,
     result |-> NoResult, error |-> NoError]

\* a stage's except branch raises the stage's exception, and lines 90-92 log
\* it and raise it again
StageFailed(run, calls, entries, e) ==
    [run EXCEPT !.pc = "raised",
                !.calls = @ \o calls,
                !.log = @ \o entries \o
                        <<LogEntry("error", "News contribution analysis failed: ", 0, e)>>,
                !.error = e]

\* the calls _extract_articles makes: lines 109-115
ExtractCalls(data_directory) ==
    IF data_directory # NotGiven
    THEN <<ComponentCall("document_processor", "new", "DocumentProcessor", data_directory),
           ComponentCall("document_processor", "new", "process_all_files", "")>>
    ELSE <<ComponentCall("document_processor", "self", "process_all_files", "")>>

\* the calls _export_results makes until it ends as the outcome says: lines 174-182
ExportCalls(output_directory, outcome) ==
    With(IF output_directory # NotGiven THEN "new" ELSE "self", LAMBDA target :
        (IF output_directory # NotGiven
         THEN <<ComponentCall("csv_exporter", target, "CSVExporter", output_directory)>>
         ELSE <<>>)
        \o (IF outcome.at = "CSVExporter" THEN <<>>
            ELSE <<ComponentCall("csv_exporter", target, "export_results", "")>>)
        \o (IF outcome.at \in {"CSVExporter", "export_results"} THEN <<>>
            ELSE <<ComponentCall("csv_exporter", target, "export_summary_stats", "")>>))

OrchestratorInit ==
    /\ NotComparing
    /\ helper = NoCall
    /\ analysis = NoAnalysis
    /\ container = NoContainer
    /\ orchestrator \in {RunStarted(d, o) : d \in DataDirectories, o \in OutputDirectories}

\* step 1 without the test for an empty list: the analysis follows whatever
\* was extracted
ExtractArticlesContinuing ==
    /\ orchestrator.pc = "extract"
    /\ \E outcome \in ExtractOutcomes :
         orchestrator' =
            IF outcome.kind = "raise"
            THEN StageFailed(orchestrator, ExtractCalls(orchestrator.data_directory),
                     <<LogEntry("info", "Extracting articles from documents", 0, NoError)>>,
                     StageError("DocumentProcessingError", "Failed to extract articles: ",
                                outcome.error))
            ELSE [orchestrator EXCEPT
                     !.pc = "analyze",
                     !.articles = outcome.articles,
                     !.calls = @ \o ExtractCalls(orchestrator.data_directory),
                     !.log = @ \o
                        <<LogEntry("info", "Extracting articles from documents", 0, NoError),
                          LogEntry("info", "Extracted articles", Len(outcome.articles), NoError)>>]
    /\ UNCHANGED <<compare_vars, helper, analysis, container>>

\* step 1, lines 66-70 with _extract_articles (94-124)
ExtractArticles ==
    /\ orchestrator.pc = "extract"
    /\ \E outcome \in ExtractOutcomes :
         orchestrator' =
            IF outcome.kind = "raise"
            THEN StageFailed(orchestrator, ExtractCalls(orchestrator.data_directory),
                     <<LogEntry("info", "Extracting articles from documents", 0, NoError)>>,
                     StageError("DocumentProcessingError", "Failed to extract articles: ",
                                outcome.error))
            ELSE IF outcome.articles = <<>>
            THEN [orchestrator EXCEPT
                     !.pc = "returned",
                     !.calls = @ \o ExtractCalls(orchestrator.data_directory),
                     !.log = @ \o
                        <<LogEntry("info", "Extracting articles from documents", 0, NoError),
                          LogEntry("info", "Extracted articles", 0, NoError),
                          LogEntry("warning", "No articles found to process", 0, NoError)>>,
                     !.result = EmptyResult]
            ELSE [orchestrator EXCEPT
                     !.pc = "analyze",
                     !.articles = outcome.articles,
                     !.calls = @ \o ExtractCalls(orchestrator.data_directory),
                     !.log = @ \o
                        <<LogEntry("info", "Extracting articles from documents", 0, NoError),
                          LogEntry("info", "Extracted articles", Len(outcome.articles), NoError)>>]
    /\ UNCHANGED <<compare_vars, helper, analysis, container>>

\* step 2, line 73 with _analyze_articles (126-152)
AnalyzeArticles ==
    /\ orchestrator.pc = "analyze"
    /\ \E outcome \in AnalysesOutcomes(orchestrator.articles) :
         orchestrator' =
            IF outcome.kind = "raise"
            THEN StageFailed(orchestrator,
                     <<ComponentCall("claude_analyzer", "self", "analyze_articles", "")>>,
                     <<LogEntry("info", "Analyzing articles with Claude AI",
                                Len(orchestrator.articles), NoError)>>,
                     StageError("ClaudeAPIError", "Failed to analyze articles: ",
                                outcome.error))
            ELSE [orchestrator EXCEPT
                     !.pc = "export",
                     !.analyses = outcome.analyses,
                     !.calls = @ \o
                        <<ComponentCall("claude_analyzer", "self", "analyze_articles", "")>>,
                     !.log = @ \o
                        <<LogEntry("info", "Analyzing articles with Claude AI",
                                   Len(orchestrator.articles), NoError),
                          LogEntry("info", "Analysis complete. Found company mentions",
                                   TotalMentions(outcome.analyses), NoError)>>]
    /\ UNCHANGED <<compare_vars, helper, analysis, container>>

\* step 3, line 76 with _export_results (154-196)
ExportResults ==
    /\ orchestrator.pc = "export"
    /\ \E outcome \in ExportOutcomes(orchestrator.output_directory) :
         orchestrator' =
            IF outcome.kind = "raise"
            THEN StageFailed(orchestrator,
                     ExportCalls(orchestrator.output_directory, outcome),
                     <<LogEntry("info", "Exporting results to CSV", 0, NoError)>>,
                     StageError("CSVExportError", "Failed to export results: ",
                                outcome.error))
            ELSE [orchestrator EXCEPT
                     !.pc = "summary",
                     !.result_files =
                        ResultFiles(ExportDirectory(orchestrator.output_directory),
                                    ExportDirectory(orchestrator.output_directory)),
                     !.calls = @ \o ExportCalls(orchestrator.output_directory, outcome),
                     !.log = @ \o
                        <<LogEntry("info", "Exporting results to CSV", 0, NoError),
                          LogEntry("info", "Results exported to", 0, NoError),
                          LogEntry("info", "Summary exported to", 0, NoError)>>]
    /\ UNCHANGED <<compare_vars, helper, analysis, container>>

\* step 4 and the return, lines 79-88 with _generate_summary (198-224), which
\* only reads the analyses the export has read before it
GenerateSummary ==
    /\ orchestrator.pc = "summary"
    /\ orchestrator' =
          [orchestrator EXCEPT
              !.pc = "returned",
              !.log = @ \o <<LogEntry("info",
                                "News contribution analysis completed successfully",
                                0, NoError)>>,
              !.result = ProcessingResult(orchestrator.articles, orchestrator.analyses,
                                          orchestrator.result_files,
                                          _generate_summary(orchestrator.analyses))]
    /\ UNCHANGED <<compare_vars, helper, analysis, container>>

OrchestratorNext ==
    \/ ExtractArticles
    \/ AnalyzeArticles
    \/ ExportResults
    \/ GenerateSummary

OrchestratorSpec == OrchestratorInit /\ [][OrchestratorNext]_vars

(***************************************************************************)
(* Properties of compare().                                                *)
(***************************************************************************)
\* the shortlist compare() computes for mention j
ShortlistOf(j) ==
    _shortlist_candidates(_normalize(mentions[j]), cf_names, cf_employers, config.top_k)

\* the best score of a non-empty shortlist: the maximum over its candidates of
\* max(name_score, employer_score)
BestScore(candidates) ==
    CHOOSE s \in {Max(candidates[p].name_score, candidates[p].employer_score) :
                      p \in DOMAIN candidates} :
        \A q \in DOMAIN candidates :
            Max(candidates[q].name_score, candidates[q].employer_score) <= s

\* the step of compare() that takes up mention i
AtMention == pc = "loop" /\ i <= Len(mentions)

\* C1: for a mention with a non-empty shortlist, a best score <= low_threshold
\* rejects it (no service call, nothing written, the loop moves on) and a best
\* score of low_threshold + 1 or more escalates it: the service is called with
\* the prompt of that mention
C1_GateBoundary ==
    [][ /\ AtMention =>
            \A shortlist \in {ShortlistOf(i)} :
                Len(shortlist) > 0 =>
                    /\ BestScore(shortlist) <= config.low_threshold =>
                          /\ outcomes' = Append(outcomes, Outcome(Rejected, <<>>))
                          /\ requests' = requests
                          /\ report' = report
                          /\ pc' = "loop"
                          /\ i' = i + 1
                    /\ BestScore(shortlist) >= config.low_threshold + 1 =>
                          /\ pc' = "call"
                          /\ cand' = shortlist
                          /\ request'.mention_original = mentions[i]
                          /\ outcomes' = outcomes
        /\ pc = "call" =>
              /\ requests' = Append(requests, request)
              /\ pc' = "adjudicate" ]_vars

\* a finished run in which one mention scored exactly low_threshold and was
\* rejected, and another scored low_threshold + 1 and was adjudicated
C1_Witness ==
    /\ pc = "done"
    /\ \E j, k \in 1..Len(mentions) :
          /\ Len(ShortlistOf(j)) > 0
          /\ BestScore(ShortlistOf(j)) = config.low_threshold
          /\ outcomes[j].decision = Rejected
          /\ Len(ShortlistOf(k)) > 0
          /\ BestScore(ShortlistOf(k)) = config.low_threshold + 1
          /\ outcomes[k].decision # Rejected
          /\ \E r \in DOMAIN requests : requests[r].mention_original = mentions[k]

\* whether a write puts an ACCEPT line into the report
WritesAccept ==
    \E w \in (Len(report) + 1)..Len(report') : report'[w].decision.kind = "ACCEPT"

\* C2: a score alone never accepts.  Every mention whose best score exceeds
\* low_threshold goes to the service, above high_threshold as well as below it,
\* and that step writes nothing; the gate gives the same answer for every value
\* of high_threshold; and an ACCEPT line is written only by the step that
\* handles the service's answer to the prompt of that mention, when the answer
\* parses to MATCH with an index between 1 and the number of candidates
C2_NeverAutoAccept ==
    [][ /\ AtMention =>
            \A shortlist \in {ShortlistOf(i)} :
                /\ (Len(shortlist) > 0 /\ BestScore(shortlist) > config.low_threshold) =>
                      /\ pc' = "call"
                      /\ cand' = shortlist
                      /\ report' = report
                      /\ outcomes' = outcomes
                /\ \A h \in 0..100 :
                      Gate(shortlist, config.low_threshold, h)
                          = Gate(shortlist, config.low_threshold, config.high_threshold)
        /\ WritesAccept =>
              /\ pc = "adjudicate"
              /\ Len(requests) > 0
              /\ requests[Len(requests)].mention_original = mentions[i]
              /\ response.kind = "text"
              /\ \A parsed \in {ParseResponse(response.text)} :
                    /\ parsed.decision = STR_MATCH
                    /\ parsed.idx \in 1..Len(cand)
              /\ report'[Len(report) + 1].text = mentions[i] ]_vars

\* a finished run in which a mention in the gray band and a mention above
\* high_threshold were both sent to the service, and the one above was accepted
\* on the service's MATCH
C2_Witness ==
    /\ pc = "done"
    /\ \E j, k \in 1..Len(mentions) :
          /\ Len(ShortlistOf(j)) > 0
          /\ BestScore(ShortlistOf(j)) > config.low_threshold
          /\ BestScore(ShortlistOf(j)) <= config.high_threshold
          /\ \E r \in DOMAIN requests : requests[r].mention_original = mentions[j]
          /\ Len(ShortlistOf(k)) > 0
          /\ BestScore(ShortlistOf(k)) > config.high_threshold
          /\ \E r \in DOMAIN requests : requests[r].mention_original = mentions[k]
          /\ outcomes[k].decision.kind = "ACCEPT"

\* C3: when the service call raises, the exception does not leave
\* _llm_adjudicate: the mention gets a REVIEW decision whose details are exactly
\* the exception's message, compare() writes it to the report as a REVIEW entry
\* with that one detail line, and the loop goes on
C3_ServiceErrorIsReview ==
    [][ (pc = "adjudicate" /\ response.kind = "raise") =>
            /\ pc' = "loop"
            /\ error' = ""
            /\ i' = i + 1
            /\ Len(outcomes') = Len(outcomes) + 1
            /\ SubSeq(outcomes', 1, Len(outcomes)) = outcomes
            /\ outcomes'[Len(outcomes')].decision.kind = "REVIEW"
            /\ outcomes'[Len(outcomes')].details = <<response.msg>>
            /\ report' = report \o
                  << Written("Mention: ", mentions[i], NoDecision),
                     Written("Decision: ", <<>>, outcomes'[Len(outcomes')].decision),
                     Written(" - ", response.msg, NoDecision),
                     Written("blank", <<>>, NoDecision) >> ]_vars

\* a finished run with a mention whose service call raised "boom": it is in the
\* report as REVIEW with the detail "boom"
C3_Witness ==
    /\ pc = "done"
    /\ \E j \in DOMAIN outcomes :
          /\ outcomes[j].decision = PlainDecision("REVIEW", "(LLM error)")
          /\ outcomes[j].details = <<STR_BOOM>>
    /\ \E w \in DOMAIN report :
          /\ w + 1 \in DOMAIN report
          /\ report[w] = Written("Decision: ", <<>>, PlainDecision("REVIEW", "(LLM error)"))
          /\ report[w + 1] = Written(" - ", STR_BOOM, NoDecision)

\* the text holds no JSON object that can be parsed: no opening brace, no closing
\* brace after it, or a span between them that json.loads rejects
NoJsonObject(text) ==
    \/ \A p \in DOMAIN text : text[p] # LBrace
    \/ \A p \in DOMAIN text : text[p] # RBrace
    \/ \A p, q \in DOMAIN text : (text[p] = LBrace /\ text[q] = RBrace) => q < p
    \/ ~JsonValid(Slice(text, Find(text, LBrace), RFind(text, RBrace) + 1))

\* the service call of the current mention failed: it raised, or its answer has
\* no object that can be parsed
ServiceFailed ==
    /\ pc = "adjudicate"
    /\ \/ response.kind = "raise"
       \/ response.kind = "text" /\ NoJsonObject(response.text)

\* mention j has been shortlisted, gated and, if escalated, adjudicated
Handled(j) ==
    /\ j <= Len(outcomes)
    /\ \A shortlist \in {ShortlistOf(j)} :
          IF Len(shortlist) = 0 \/ BestScore(shortlist) <= config.low_threshold
          THEN outcomes[j].decision = Rejected
          ELSE /\ outcomes[j].decision.kind \in {"ACCEPT", "NO_MATCH", "REVIEW"}
               /\ \E r \in DOMAIN requests :
                     /\ requests[r].mention_original = mentions[j]
                     /\ Len(requests[r].candidates) = Len(shortlist)

\* compare() has returned the report path
Returned == pc = "done" /\ error = "" /\ report_created

\* C4: a failure of the service on a mention never aborts the run: the step
\* that handles the failure makes the mention a REVIEW and moves the loop to the
\* next mention, compare() eventually returns, and when it has returned every
\* mention has been shortlisted, gated and, if escalated, adjudicated
C4_FailureIsolation ==
    /\ [][ ServiceFailed =>
              /\ pc' = "loop"
              /\ error' = ""
              /\ i' = i + 1
              /\ Len(outcomes') = i
              /\ outcomes'[i].decision.kind = "REVIEW" ]_vars
    /\ ServiceFailed ~> Returned
    /\ [](Returned =>
              /\ Len(outcomes) = Len(mentions)
              /\ \A j \in 1..Len(mentions) : Handled(j))

\* a finished run whose first mention failed at the service and whose second
\* mention was adjudicated and accepted after it
C4_Witness ==
    /\ Returned
    /\ Len(mentions) = 2
    /\ Len(outcomes) = 2
    /\ outcomes[1].decision.kind = "REVIEW"
    /\ outcomes[1].details \in {<<STR_BOOM>>, <<STR_UNPARSEABLE>>}
    /\ outcomes[2].decision.kind = "ACCEPT"
    /\ Len(requests) = 2

\* the step of compare() that takes the service's answer for mention i
AnswerArrived == pc = "adjudicate" /\ response.kind = "text"

\* the outcome the step under way records for mention i
NewOutcome == outcomes'[Len(outcomes) + 1]

\* the entry of mention i with one detail line
EntryWith(decision, detail) ==
    << Written("Mention: ", mentions[i], NoDecision),
       Written("Decision: ", <<>>, decision),
       Written(" - ", detail, NoDecision),
       Written("blank", <<>>, NoDecision) >>

\* C5: when the answer parses to MATCH with 1 <= index <= len(candidates), the
\* decision is an ACCEPT for the reference record of the candidate at position
\* index of the list shown to the service, cf_records[candidates[index-1].index],
\* with that record's Contributor Name and Contributor Employer as loaded, not
\* normalised, the reason is the one detail, and compare() writes the original
\* mention and the ACCEPT line
C5_MatchAccepts ==
    [][ AnswerArrived =>
            \A parsed \in {ParseResponse(response.text)} :
                (parsed.decision = STR_MATCH /\ parsed.idx \in 1..Len(cand)) =>
                    /\ Len(outcomes') = Len(outcomes) + 1
                    /\ NewOutcome.decision.kind = "ACCEPT"
                    /\ NewOutcome.decision.name
                          = cf_records[cand[parsed.idx].index + 1]["Contributor Name"]
                    /\ NewOutcome.decision.employer
                          = cf_records[cand[parsed.idx].index + 1]["Contributor Employer"]
                    /\ NewOutcome.decision.name
                          = requests[Len(requests)].candidates[parsed.idx].name
                    /\ NewOutcome.decision.employer
                          = requests[Len(requests)].candidates[parsed.idx].employer
                    /\ NewOutcome.details = <<parsed.reason>>
                    /\ report' = report \o EntryWith(NewOutcome.decision, parsed.reason) ]_vars

\* "Random Co." was accepted for the second candidate shown, which is the first
\* record of the file, and the report names the record as the file spells it
C5_Witness ==
    /\ pc = "loop"
    /\ Len(outcomes) > 0
    /\ mentions[Len(outcomes)] = STR_RANDOM_CO
    /\ outcomes[Len(outcomes)].decision.kind = "ACCEPT"
    /\ outcomes[Len(outcomes)].decision.name = STR_ACME_WIDGETS_LLC
    /\ outcomes[Len(outcomes)].decision.name # _normalize(STR_ACME_WIDGETS_LLC)
    /\ cf_records[1]["Contributor Name"] = STR_ACME_WIDGETS_LLC
    /\ Len(cf_records) = 2
    /\ report[Len(report) - 3] = Written("Mention: ", STR_RANDOM_CO, NoDecision)
    /\ report[Len(report) - 2].decision = outcomes[Len(outcomes)].decision

\* the object of the answer, as the code cuts it out: from the first opening
\* brace to the last closing brace
AnswerObject == Slice(response.text, Find(response.text, LBrace), RFind(response.text, RBrace) + 1)

\* the answer's JSON object carries the decision NO_MATCH
CarriesNoMatch ==
    /\ AnswerArrived
    /\ ~NoJsonObject(response.text)
    /\ Upper(PyStr(DictGet(AnswerObject, "decision", JStr(STR_REVIEW)))) = STR_NO_MATCH

\* the mention is a NO_MATCH with the reason as its detail, and nothing is
\* written for it
SuppressedAsNoMatch ==
    /\ Len(outcomes') = Len(outcomes) + 1
    /\ NewOutcome.decision.kind = "NO_MATCH"
    /\ NewOutcome.details = <<PyStr(DictGet(AnswerObject, "reason", JStr(<<>>)))>>
    /\ report' = report

\* C6 as stated: every answer whose JSON object carries NO_MATCH, whatever its
\* index and reason, gives NO_MATCH with the reason as detail and no line in
\* the report
C6_NoMatchWhateverIndex == [][CarriesNoMatch => SuppressedAsNoMatch]_vars

\* C6 as the code has it: the same, for the answers whose index is absent or is
\* a value int() converts; an index int() rejects (null, a non-numeric string)
\* makes the answer unparseable, which is a REVIEW that is written
C6_NoMatchSuppressed ==
    [][ /\ (CarriesNoMatch /\ PyInt(DictGet(AnswerObject, "index", JInt(0))).ok)
              => SuppressedAsNoMatch
        /\ (CarriesNoMatch /\ ~PyInt(DictGet(AnswerObject, "index", JInt(0))).ok)
              => /\ NewOutcome.decision.kind = "REVIEW"
                 /\ NewOutcome.details = <<STR_UNPARSEABLE>>
                 /\ report' = report \o EntryWith(NewOutcome.decision, STR_UNPARSEABLE) ]_vars

\* a finished run whose only escalated mention was judged NO_MATCH: the report
\* is the header alone
C6_Witness ==
    /\ pc = "done"
    /\ Len(requests) = 1
    /\ \E j \in DOMAIN outcomes :
          /\ outcomes[j].decision = PlainDecision("NO_MATCH", "(LLM)")
          /\ outcomes[j].details = <<STR_OK>>
    /\ report = ReportHeader

\* what the report holds for an outcome: an entry for ACCEPT and REVIEW, nothing
\* for REJECTED and NO_MATCH
EntryFor(mention, outcome) ==
    IF outcome.decision.kind \in {"ACCEPT", "REVIEW"}
    THEN << Written("Mention: ", mention, NoDecision),
            Written("Decision: ", <<>>, outcome.decision) >>
         \o [d \in 1..Len(outcome.details) |-> Written(" - ", outcome.details[d], NoDecision)]
         \o << Written("blank", <<>>, NoDecision) >>
    ELSE <<>>

RECURSIVE EntriesUpTo(_)
\* the entries of the first n mentions, in order
EntriesUpTo(n) ==
    IF n = 0 THEN <<>> ELSE EntriesUpTo(n - 1) \o EntryFor(mentions[n], outcomes[n])

\* C7: once the report exists it begins with the fixed header, and after it
\* come, in order, the entries of the mentions decided ACCEPT or REVIEW and
\* nothing else: a REJECTED or NO_MATCH mention leaves no text; so it is when
\* compare() has finished
C7_ReportSuppression ==
    /\ report_created =>
          /\ Len(report) >= 2
          /\ report[1] = Written("Matches Report", <<>>, NoDecision)
          /\ report[2] = Written("rule", [k \in 1..40 |-> "="], NoDecision)
          /\ \A j \in DOMAIN outcomes :
                outcomes[j].decision.kind \in {"ACCEPT", "REVIEW", "REJECTED", "NO_MATCH"}
          /\ SubSeq(report, 3, Len(report)) = EntriesUpTo(Len(outcomes))
    /\ pc = "done" => (report_created /\ Len(outcomes) = Len(mentions))

\* a finished run of two mentions: one left no text (REJECTED or NO_MATCH), the
\* other has its entry after the header
C7_Witness ==
    /\ pc = "done"
    /\ Len(outcomes) = 2
    /\ \E j, k \in DOMAIN outcomes :
          /\ outcomes[j].decision.kind = "NO_MATCH"
          /\ outcomes[k].decision.kind \in {"ACCEPT", "REVIEW"}
          /\ report = ReportHeader \o EntryFor(mentions[k], outcomes[k])

\* C8: an answer with no JSON object that can be parsed does not make
\* _llm_adjudicate raise: the mention is a REVIEW with the one fixed detail
\* "Unparseable LLM response"
C8_UnparseableIsReview ==
    [][ (AnswerArrived /\ NoJsonObject(response.text)) =>
            /\ pc' = "loop"
            /\ error' = ""
            /\ Len(outcomes') = Len(outcomes) + 1
            /\ NewOutcome.decision = PlainDecision("REVIEW", "(LLM)")
            /\ NewOutcome.details = <<STR_UNPARSEABLE>> ]_vars

\* the loop has just taken a mention whose answer could not be parsed: it is in
\* the report as REVIEW with the fixed detail
C8_Witness ==
    /\ pc = "loop"
    /\ Len(outcomes) > 0
    /\ outcomes[Len(outcomes)] = Outcome(PlainDecision("REVIEW", "(LLM)"), <<STR_UNPARSEABLE>>)
    /\ report[Len(report) - 1] = Written(" - ", STR_UNPARSEABLE, NoDecision)

\* C9: a mention whose shortlist is empty is rejected, with no service call and
\* nothing written; with an empty reference corpus every shortlist is empty, so
\* the service is never called and the report stays the header
C9_EmptyShortlistRejected ==
    [][ /\ AtMention =>
            \A shortlist \in {ShortlistOf(i)} :
                /\ Len(shortlist) = 0 =>
                      /\ outcomes' = Append(outcomes, Outcome(Rejected, <<>>))
                      /\ requests' = requests
                      /\ report' = report
                      /\ pc' = "loop"
                      /\ i' = i + 1
                /\ Len(cf_records) = 0 => Len(shortlist) = 0
        /\ (pc \in {"loop", "call", "adjudicate", "done"} /\ Len(cf_records) = 0) =>
              /\ requests = <<>>
              /\ pc \in {"loop", "done"}
              /\ report = ReportHeader ]_vars

\* a finished run over an empty reference file: two mentions, both rejected, no
\* service call, the report is the header
C9_Witness ==
    /\ pc = "done"
    /\ cf_file.exists
    /\ cf_records = <<>>
    /\ Len(mentions) = 2
    /\ outcomes = <<Outcome(Rejected, <<>>), Outcome(Rejected, <<>>)>>
    /\ requests = <<>>
    /\ report = ReportHeader

\* an input compare() must refuse
InvalidInput ==
    \/ ~cf_file.exists
    \/ Lower(company_file.suffix) # STR_CSV
    \/ "Company/Organization Name" \notin company_file.fieldnames
    \/ "Contributor Name" \notin cf_file.fieldnames
    \/ "Contributor Employer" \notin cf_file.fieldnames

\* no mention has been processed, no service call made, no report created
NothingDone ==
    /\ ~report_created
    /\ report = <<>>
    /\ i = 0
    /\ outcomes = <<>>
    /\ requests = <<>>
    /\ request = NoRequest

\* C10: on an invalid input compare() never gets past validation and loading:
\* each check raises where it stands, the missing file and the suffix before
\* anything is read and a missing column while loading, and whenever compare()
\* has raised no mention has been processed, no service call made and no report
\* created or written
C10_FailFast ==
    [][ /\ InvalidInput => (pc \in {"start", "load", "raised"} /\ NothingDone)
        /\ (pc = "start" /\ (~cf_file.exists \/ Lower(company_file.suffix) # STR_CSV)) =>
              (pc' = "raised" /\ error' \in {"FileNotFoundError", "ValueError"})
        /\ (pc = "load" /\ InvalidInput) => (pc' = "raised" /\ error' = "ValueError")
        /\ pc = "raised" => (InvalidInput /\ NothingDone /\ error # "") ]_vars

\* compare() has raised on a company file that is not a .csv, next to a
\* campaign-finance file that is in order
C10_Witness ==
    /\ pc = "raised"
    /\ error = "ValueError"
    /\ cf_file.exists
    /\ company_file.suffix = STR_TXT
    /\ Len(company_file.rows) > 0
    /\ NothingDone


\* the answer's object has a member named key
AnswerHas(key) ==
    \E p \in DOMAIN AnswerObject : AnswerObject[p].tok = "pair" /\ AnswerObject[p].key = key

\* the value of that member
AnswerMember(key) == DictGet(AnswerObject, key, JNull)

\* the answer has been parsed: it holds an object json.loads accepts, and its
\* index, if it has one, is a value int() converts
AnswerParsed ==
    /\ AnswerArrived
    /\ ~NoJsonObject(response.text)
    /\ AnswerHas("index") => PyInt(AnswerMember("index")).ok

\* the decision of the parsed answer is word, in any letter case
AnswerDecides(word) ==
    AnswerHas("decision") /\ Upper(PyStr(AnswerMember("decision"))) = word

\* the index of the parsed answer names one of n candidates
AnswerIndexIn(n) ==
    AnswerHas("index") /\ PyInt(AnswerMember("index")).n \in 1..n

\* the reason of the parsed answer, the empty string if it has none
AnswerReason == IF AnswerHas("reason") THEN PyStr(AnswerMember("reason")) ELSE <<>>

\* C11: every parsed answer that is neither MATCH with an index between 1 and
\* the number of candidates nor NO_MATCH (MATCH with an index out of range or no
\* index, a decision that is missing or is another word) gives REVIEW with the
\* answer's reason as the one detail, and the mention is written to the report
\* as a REVIEW entry
C11_OtherwiseReview ==
    [][ (/\ AnswerParsed
         /\ ~(AnswerDecides(STR_MATCH) /\ AnswerIndexIn(Len(cand)))
         /\ ~AnswerDecides(STR_NO_MATCH)) =>
            /\ pc' = "loop"
            /\ i' = i + 1
            /\ Len(outcomes') = Len(outcomes) + 1
            /\ NewOutcome.decision = PlainDecision("REVIEW", "(LLM)")
            /\ NewOutcome.details = <<AnswerReason>>
            /\ report' = report \o EntryWith(NewOutcome.decision, AnswerReason) ]_vars

\* the loop has just taken a mention whose answer was MATCH with the index 3,
\* beyond the candidates shown: it is in the report as REVIEW with the answer's
\* reason
C11_Witness ==
    /\ pc = "loop"
    /\ Len(outcomes) > 0
    /\ outcomes[Len(outcomes)] = Outcome(PlainDecision("REVIEW", "(LLM)"), <<STR_RANGE>>)
    /\ report[Len(report) - 3] = Written("Mention: ", mentions[Len(outcomes)], NoDecision)
    /\ report[Len(report) - 2] = Written("Decision: ", <<>>, PlainDecision("REVIEW", "(LLM)"))
    /\ report[Len(report) - 1] = Written(" - ", STR_RANGE, NoDecision)


\* the answer holds an object json.loads accepts that lacks one of the three
\* members the prompt asks for
AnswerLacksKey ==
    /\ AnswerArrived
    /\ ~NoJsonObject(response.text)
    /\ \E key \in {"decision", "index", "reason"} : ~AnswerHas(key)

\* C12 as stated: an object json.loads accepts that lacks an expected member
\* gives REVIEW with the fixed detail "Unparseable LLM response"
C12_MissingKeysUnparseable ==
    [][ AnswerLacksKey =>
            /\ NewOutcome.decision.kind = "REVIEW"
            /\ NewOutcome.details = <<STR_UNPARSEABLE>> ]_vars

\* C12 as the code has it: a member the object lacks takes its default, the
\* decision REVIEW, the index 0, the reason the empty string, and the answer is
\* decided like any parsed answer, with its reason as the detail: REVIEW when
\* the decision is missing or is MATCH without an index, NO_MATCH when the
\* decision says so.  The fixed detail "Unparseable LLM response" is that of an
\* answer with no object that can be parsed or with an index int() rejects; it
\* comes under "REVIEW (LLM)", a failed call under "REVIEW (LLM error)" with the
\* exception's message
C12_MissingKeysDefaulted ==
    [][ /\ (AnswerLacksKey /\ AnswerParsed) =>
              /\ pc' = "loop"
              /\ error' = ""
              /\ Len(outcomes') = Len(outcomes) + 1
              /\ NewOutcome.details = <<AnswerReason>>
              /\ NewOutcome.details # <<STR_UNPARSEABLE>>
              /\ ~AnswerHas("decision") => NewOutcome.decision = PlainDecision("REVIEW", "(LLM)")
              /\ ~AnswerHas("index") =>
                    NewOutcome.decision =
                        IF AnswerDecides(STR_NO_MATCH) THEN PlainDecision("NO_MATCH", "(LLM)")
                        ELSE PlainDecision("REVIEW", "(LLM)")
        /\ (AnswerArrived /\ ~AnswerParsed) =>
              /\ NewOutcome.decision = PlainDecision("REVIEW", "(LLM)")
              /\ NewOutcome.details = <<STR_UNPARSEABLE>>
        /\ (pc = "adjudicate" /\ response.kind = "raise") =>
              /\ NewOutcome.decision = PlainDecision("REVIEW", "(LLM error)")
              /\ NewOutcome.details = <<response.msg>> ]_vars

\* the loop has just taken a mention whose answer was an object without a
\* reason: it is in the report as REVIEW with an empty detail line
C12_Witness ==
    /\ pc = "loop"
    /\ Len(outcomes) > 0
    /\ Len(requests) > 0
    /\ requests[Len(requests)].mention_original = mentions[Len(outcomes)]
    /\ outcomes[Len(outcomes)] = Outcome(PlainDecision("REVIEW", "(LLM)"), << <<>> >>)
    /\ report[Len(report) - 2] = Written("Decision: ", <<>>, PlainDecision("REVIEW", "(LLM)"))
    /\ report[Len(report) - 1] = Written(" - ", <<>>, NoDecision)


\* the braces of text[p..k] that are still open after position k
OpenBraces(text, p, k) ==
    Cardinality({x \in p..k : text[x] = LBrace}) - Cardinality({x \in p..k : text[x] = RBrace})

\* the text has a first balanced span: from its first opening brace, at p, to
\* the first position q at which every brace opened since p is closed
BalancedSpan(text, p, q) ==
    /\ p \in DOMAIN text
    /\ q \in DOMAIN text
    /\ p = Find(text, LBrace) + 1
    /\ q > p
    /\ OpenBraces(text, p, q) = 0
    /\ \A k \in p..(q - 1) : OpenBraces(text, p, k) > 0

\* the answer is a decision object with other text before or after it, the
\* object being text[p..q]
WrappedObject(text, p, q) ==
    /\ BalancedSpan(text, p, q)
    /\ JsonValid(SubSeq(text, p, q))
    /\ (p > 1 \/ q < Len(text))

\* what _llm_adjudicate returns for the current mention when the answer is text
AdjudicatedAs(text) ==
    _llm_adjudicate(mentions[i], _normalize(mentions[i]), cand, cf_records, Returns(text))

Normalized == helper.fn = "_normalize" /\ helper.returned

\* C14: normalisation is idempotent: whatever _normalize returns, _normalize
\* returns it unchanged
C14_Idempotent == Normalized => _normalize(helper.ret) = helper.ret

\* "Acme, Inc." was normalised to "acme", and "acme" normalised again is "acme"
C14_Witness ==
    /\ Normalized
    /\ helper.nth = 2
    /\ helper.s = STR_ACME_LOWER
    /\ helper.ret = STR_ACME_LOWER
    /\ _normalize(STR_ACME_INC) = STR_ACME_LOWER


\* C15: a listed suffix, in any letter case, standing as a whole word after a
\* name is removed: _normalize(name + " " + suffix) is _normalize(name); and
\* "Acme, Inc." and "Acme" both give "acme"
C15_SuffixStripped ==
    Normalized =>
        /\ \A name \in NormNames, suffix \in CasedSuffixes :
              helper.s = name \o <<" ">> \o suffix => helper.ret = _normalize(name)
        /\ helper.s \in {STR_ACME_INC, STR_ACME} => helper.ret = STR_ACME_LOWER


\* the words of s: its maximal runs of word characters, as <<first, last>>
WordRuns(s) ==
    { <<a, b>> \in (DOMAIN s) \X (DOMAIN s) :
        /\ a <= b
        /\ \A k \in a..b : IsWordChar(s[k])
        /\ (a = 1 \/ ~IsWordChar(s[a - 1]))
        /\ (b = Len(s) \/ ~IsWordChar(s[b + 1])) }

\* w is one of the listed suffixes, in any letter case
IsListedSuffix(w) == Lower(w) \in Range(SuffixAlternatives)

\* s[a..b] lies in an occurrence of a listed suffix of several words (l.l.c.)
\* that the pattern matches
InMatchedSuffix(s, a, b) ==
    \E p \in DOMAIN s, x \in DOMAIN SuffixAlternatives :
        /\ AlternativeAt(Lower(s), p, x)
        /\ p <= a
        /\ b <= p + Len(SuffixAlternatives[x]) - 1

\* the word s[a..b] is a word of the result, in lower case
Survives(s, a, b) == Lower(SubSeq(s, a, b)) \in Tokens(helper.ret)

\* C16 as stated: every word of the argument that is not itself a listed suffix
\* is a word of the result, lower-cased and whole; "Coco" gives "coco"
C16_EveryOtherWordSurvives ==
    (Normalized /\ helper.s # None) =>
        /\ \A w \in WordRuns(helper.s) :
              ~IsListedSuffix(SubSeq(helper.s, w[1], w[2])) => Survives(helper.s, w[1], w[2])
        /\ helper.s = STR_COCO => helper.ret = Lower(STR_COCO)

\* C16 as the code has it: the same for every word that is not itself a listed
\* suffix and is not one of the letters of an "l.l.c." the pattern matches (the
\* pattern matches it where a word character follows its last dot, and takes
\* the words l, l and c away with it)
C16_SubstringsSurvive ==
    (Normalized /\ helper.s # None) =>
        /\ \A w \in WordRuns(helper.s) :
              (/\ ~IsListedSuffix(SubSeq(helper.s, w[1], w[2]))
               /\ ~InMatchedSuffix(helper.s, w[1], w[2])) => Survives(helper.s, w[1], w[2])
        /\ helper.s = STR_COCO => helper.ret = Lower(STR_COCO)

\* "Coco co" was normalised: the word "Coco" is kept whole, the word "co" is gone
C16_Witness ==
    /\ Normalized
    /\ helper.s = STR_COCO \o <<" ", "c", "o">>
    /\ helper.ret = Lower(STR_COCO)


\* a character that is neither a letter, a digit nor whitespace
IsPunctuation(c) ==
    /\ c \notin Range(UpperCase) \cup Range(LowerCase) \cup Range(Digits)
    /\ ~IsSpaceChar(c)

\* C17: the result of _normalize is in canonical form: no upper-case letter, no
\* punctuation character, no whitespace at either end, no two whitespace
\* characters in a row; None and the empty string give the empty string
C17_CanonicalForm ==
    Normalized =>
        /\ \A k \in DOMAIN helper.ret :
              /\ helper.ret[k] \notin Range(UpperCase)
              /\ ~IsPunctuation(helper.ret[k])
              /\ IsSpaceChar(helper.ret[k]) => (k > 1 /\ k < Len(helper.ret))
              /\ (IsSpaceChar(helper.ret[k]) /\ k < Len(helper.ret)) =>
                    ~IsSpaceChar(helper.ret[k + 1])
        /\ helper.s \in {None, <<>>} => helper.ret = <<>>


(***************************************************************************)
(* Properties of _shortlist_candidates.                                    *)
(***************************************************************************)
\* a call of _shortlist_candidates has returned
Shortlisted == helper.fn = "_shortlist_candidates" /\ helper.returned

\* the tokens of s in the order they stand in s
TokenSeq(s) ==
    LET runs == { <<a, b>> \in (DOMAIN s) \X (DOMAIN s) :
                    /\ a <= b
                    /\ \A k \in a..b : ~IsSpaceChar(s[k])
                    /\ (a = 1 \/ IsSpaceChar(s[a - 1]))
                    /\ (b = Len(s) \/ IsSpaceChar(s[b + 1])) }
        nth(k) == CHOOSE r \in runs : Cardinality({q \in runs : q[1] < r[1]}) = k - 1
    IN  [k \in 1..Cardinality(runs) |-> SubSeq(s, nth(k)[1], nth(k)[2])]

RECURSIVE JoinWords(_)
\* " ".join(words)
JoinWords(words) ==
    IF Len(words) = 0 THEN <<>>
    ELSE IF Len(words) = 1 THEN words[1]
    ELSE words[1] \o <<" ">> \o JoinWords(Tail(words))

\* s with its first token moved to the end: "acme global fund" becomes
\* "global fund acme"
Reordered(s) ==
    IF Len(TokenSeq(s)) = 0 THEN s
    ELSE JoinWords(Tail(TokenSeq(s)) \o <<Head(TokenSeq(s))>>)

\* the record indexes and the scores of a shortlist, in its order
Scores(candidates) ==
    [p \in DOMAIN candidates |->
        <<candidates[p].index, candidates[p].name_score, candidates[p].employer_score>>]

\* C18: the scores do not depend on the order of the tokens of a reference
\* string: with the tokens of any one name, or of any one employer, put in
\* another order, _shortlist_candidates gives the same records with the same
\* name_score and employer_score; and when top_k leaves no record out, a record
\* whose name and employer are made of the same tokens has name_score equal to
\* employer_score
C18_OrderIndependent ==
    Shortlisted =>
        /\ \A r \in DOMAIN helper.cf_names :
              /\ Scores(_shortlist_candidates(
                            helper.norm_mention,
                            [helper.cf_names EXCEPT ![r] = Reordered(@)],
                            helper.cf_employers, helper.top_k)) = Scores(helper.ret)
              /\ Scores(_shortlist_candidates(
                            helper.norm_mention, helper.cf_names,
                            [helper.cf_employers EXCEPT ![r] = Reordered(@)],
                            helper.top_k)) = Scores(helper.ret)
        /\ helper.top_k >= Len(helper.cf_names) =>
              \A p \in DOMAIN helper.ret :
                  Tokens(helper.ret[p].contributor_name)
                        = Tokens(helper.ret[p].contributor_employer)
                      => helper.ret[p].name_score = helper.ret[p].employer_score

\* the shortlist of "acme funds" holds a record named "acme global fund" and a
\* record named "global fund acme", the latter with the employer "acme global
\* fund": the three scores are one number, which is neither 0 nor 100
C18_Witness ==
    /\ Shortlisted
    /\ helper.norm_mention = NORM_ACME_FUNDS
    /\ \E p, q \in DOMAIN helper.ret :
          /\ helper.ret[p].contributor_name = NORM_ACME_GLOBAL_FUND
          /\ helper.ret[q].contributor_name = NORM_GLOBAL_FUND_ACME
          /\ helper.ret[q].contributor_employer = NORM_ACME_GLOBAL_FUND
          /\ NORM_GLOBAL_FUND_ACME = Reordered(NORM_ACME_GLOBAL_FUND)
          /\ helper.ret[p].name_score = helper.ret[q].name_score
          /\ helper.ret[q].name_score = helper.ret[q].employer_score
          /\ helper.ret[p].name_score \in 1..99


\* what process.extract returned for the names and for the employers
TopNames == Extract(helper.norm_mention, helper.cf_names, helper.top_k)

TopEmployers == Extract(helper.norm_mention, helper.cf_employers, helper.top_k)

\* the score record idx has in a top-k list, 0 when the list does not hold it
ScoreIn(top, idx) ==
    IF \E k \in DOMAIN top : top[k].idx = idx
    THEN IntScore(top[CHOOSE k \in DOMAIN top : top[k].idx = idx].score)
    ELSE 0

\* C19: the shortlist holds exactly the records of the two top-k lists, each
\* once; a candidate carries the record's two reference strings, as name_score
\* its score in the names' top-k and as employer_score its score in the
\* employers' top-k, and 0 for a list that does not hold the record
C19_MergedByIndex ==
    Shortlisted =>
        /\ \A p, q \in DOMAIN helper.ret :
              helper.ret[p].index = helper.ret[q].index => p = q
        /\ {helper.ret[p].index : p \in DOMAIN helper.ret}
              = {TopNames[k].idx : k \in DOMAIN TopNames}
                    \cup {TopEmployers[k].idx : k \in DOMAIN TopEmployers}
        /\ \A p \in DOMAIN helper.ret :
              /\ helper.ret[p].name_score = ScoreIn(TopNames, helper.ret[p].index)
              /\ helper.ret[p].employer_score = ScoreIn(TopEmployers, helper.ret[p].index)
              /\ helper.ret[p].contributor_name = helper.cf_names[helper.ret[p].index + 1]
              /\ helper.ret[p].contributor_employer
                    = helper.cf_employers[helper.ret[p].index + 1]

\* a shortlist with top_k = 2 over three records: one record is in both top-k
\* lists and carries both scores; another is in the names' list alone and
\* carries employer_score 0, though its employer scores above 0
C19_Witness ==
    /\ Shortlisted
    /\ helper.top_k = 2
    /\ Len(helper.cf_names) = 3
    /\ \E p, q \in DOMAIN helper.ret :
          /\ \E k \in DOMAIN TopNames : TopNames[k].idx = helper.ret[p].index
          /\ \E k \in DOMAIN TopEmployers : TopEmployers[k].idx = helper.ret[p].index
          /\ helper.ret[p].name_score > 0
          /\ helper.ret[p].employer_score > 0
          /\ helper.ret[p].name_score # helper.ret[p].employer_score
          /\ \E k \in DOMAIN TopNames : TopNames[k].idx = helper.ret[q].index
          /\ helper.ret[q].name_score > 0
          /\ helper.ret[q].employer_score = 0
          /\ IntScore(token_set_ratio(helper.norm_mention,
                                      helper.ret[q].contributor_employer)) > 0

\* C20: the shortlist is in non-increasing order of max(name_score,
\* employer_score), so its first candidate carries the best score, the one the
\* gate of compare() takes: for every threshold the gate rejects exactly when
\* the list is empty or the first candidate's score is not above the threshold
C20_SortedByBest ==
    Shortlisted =>
        /\ \A p, q \in DOMAIN helper.ret :
              p < q => Max(helper.ret[p].name_score, helper.ret[p].employer_score)
                          >= Max(helper.ret[q].name_score, helper.ret[q].employer_score)
        /\ \A lo \in 0..100 :
              (Gate(helper.ret, lo, 100) = "REJECTED")
                  <=> \/ Len(helper.ret) = 0
                      \/ Max(helper.ret[1].name_score, helper.ret[1].employer_score) <= lo

\* a shortlist of three candidates with three different scores, which the two
\* loops had collected in another order
C20_Witness ==
    /\ Shortlisted
    /\ Len(helper.ret) = 3
    /\ CandScore(helper.ret[1]) > CandScore(helper.ret[2])
    /\ CandScore(helper.ret[2]) > CandScore(helper.ret[3])
    /\ helper.ret # MergeTops(TopNames, TopEmployers, helper.cf_names, helper.cf_employers)


\* the scorer's score of every name and of every employer for the query of the
\* call
NameScores == ScoreAll(helper.norm_mention, helper.cf_names)

EmployerScores == ScoreAll(helper.norm_mention, helper.cf_employers)

\* record a (counted from 0) stands before record b: its score is higher, or
\* the scores are equal and a is the earlier record
StandsBefore(score, a, b) ==
    \/ ScoreLess(score[b + 1], score[a + 1])
    \/ (score[a + 1] = score[b + 1] /\ a < b)

\* the records fewer than top_k others stand before
Retained(score, top_k) ==
    {a \in 0..(Len(score) - 1) :
        Cardinality({b \in 0..(Len(score) - 1) : StandsBefore(score, b, a)}) < top_k}

\* the record indexes of a shortlist
Indexes(candidates) == {candidates[p].index : p \in DOMAIN candidates}

\* C21: of n records each field keeps min(top_k, n): the highest-scoring ones,
\* of records with one score the earlier; the shortlist holds the records kept
\* for either field, a field's score being 0 for a record that field did not
\* keep; so with top_k >= n it holds every record, and it never holds more than
\* min(2 * top_k, n)
C21_TopKRetention ==
    Shortlisted =>
        \E n \in {Len(helper.cf_names)} :
        \E names \in {Retained(NameScores, helper.top_k)} :
        \E employers \in {Retained(EmployerScores, helper.top_k)} :
            /\ Cardinality(names) = Min(helper.top_k, n)
            /\ Cardinality(employers) = Min(helper.top_k, n)
            /\ Indexes(helper.ret) = names \cup employers
            /\ \A p \in DOMAIN helper.ret :
                  /\ helper.ret[p].name_score =
                        IF helper.ret[p].index \in names
                        THEN IntScore(NameScores[helper.ret[p].index + 1]) ELSE 0
                  /\ helper.ret[p].employer_score =
                        IF helper.ret[p].index \in employers
                        THEN IntScore(EmployerScores[helper.ret[p].index + 1]) ELSE 0
            /\ helper.top_k >= n => Indexes(helper.ret) = 0..(n - 1)
            /\ Len(helper.ret) <= Min(2 * helper.top_k, n)

\* top_k = 1 over three records: two names have one score above 0 and the
\* earlier record is kept for its name, the later one is kept for no field; the
\* third record is kept for its employer
C21_Witness ==
    /\ Shortlisted
    /\ helper.top_k = 1
    /\ Len(helper.cf_names) = 3
    /\ Len(helper.ret) = 2
    /\ \E a, b \in 0..2 :
          /\ a < b
          /\ NameScores[a + 1] = NameScores[b + 1]
          /\ IntScore(NameScores[a + 1]) \in 1..99
          /\ a \in Indexes(helper.ret)
          /\ b \notin Indexes(helper.ret)
          /\ \E p \in DOMAIN helper.ret :
                /\ helper.ret[p].index = a
                /\ helper.ret[p].name_score = IntScore(NameScores[a + 1])
          /\ \E p \in DOMAIN helper.ret :
                /\ helper.ret[p].index \notin {a, b}
                /\ helper.ret[p].name_score = 0
                /\ helper.ret[p].employer_score > 0


(***************************************************************************)
(* Properties of _format_accept.                                           *)
(***************************************************************************)
\* a call of _format_accept has returned
Formatted == helper.fn = "_format_accept" /\ helper.returned

\* C22: the ACCEPT names the field Name when name_score >= employer_score and
\* Employer otherwise, equal scores going to Name, and its score is
\* max(name_score, employer_score) of the candidate
C22_WinningField ==
    Formatted =>
        /\ helper.ret.kind = "ACCEPT"
        /\ helper.ret.field \in {"Name", "Employer"}
        /\ (helper.ret.field = "Name") <=> (helper.cand.name_score >= helper.cand.employer_score)
        /\ helper.ret.score \in {helper.cand.name_score, helper.cand.employer_score}
        /\ helper.ret.score >= helper.cand.name_score
        /\ helper.ret.score >= helper.cand.employer_score

\* a candidate with name_score = employer_score = 61 was accepted for its Name
\* with the score 61
C22_Witness ==
    /\ Formatted
    /\ helper.cand.name_score = 61
    /\ helper.cand.employer_score = 61
    /\ helper.ret.field = "Name"
    /\ helper.ret.score = 61


(***************************************************************************)
(* Properties of a whole run of compare().                                 *)
(***************************************************************************)
\* the mentions among the first n whose best score is above low_threshold, each
\* occurrence on its own
Escalated(n) ==
    {j \in 1..n : \E shortlist \in {ShortlistOf(j)} :
                      /\ Len(shortlist) > 0
                      /\ BestScore(shortlist) > config.low_threshold}

\* C23: the service has been called once for every mention, counted as often
\* as it occurs, whose best score is above low_threshold and which the loop has
\* reached, and not at all for the others: when compare() returns, the number
\* of calls is the number of such mentions, however the calls ended
C23_OneCallPerEscalation ==
    \E reached \in {IF pc \in {"call", "adjudicate"} THEN i ELSE Len(outcomes)} :
    \E escalated \in {Escalated(reached)} :
        /\ pc \in {"loop", "done"} => Len(requests) = Cardinality(escalated)
        /\ pc = "call" => i \in escalated /\ Len(requests) = Cardinality(escalated) - 1
        /\ pc = "adjudicate" => i \in escalated /\ Len(requests) = Cardinality(escalated)
        /\ pc = "done" => reached = Len(mentions)
        /\ pc \in {"start", "load", "open", "raised"} => Len(requests) = 0

\* a run over the same mention twice has returned: the first call raised, the
\* answer to the second was not JSON, and the service received the same prompt
\* twice
C23_Witness ==
    /\ pc = "done"
    /\ Len(mentions) = 2
    /\ mentions[1] = mentions[2]
    /\ Len(requests) = 2
    /\ requests[1] = requests[2]
    /\ outcomes[1].decision = PlainDecision("REVIEW", "(LLM error)")
    /\ outcomes[2] = Outcome(PlainDecision("REVIEW", "(LLM)"), <<STR_UNPARSEABLE>>)


(***************************************************************************)
(* Properties of ClaudeAnalyzer.analyze_articles.                          *)
(***************************************************************************)
\* C24: analyze_articles does not raise when analyze_article does; when it
\* returns, every article has been analysed once, in input order, the results
\* hold one analysis per article in that order, the analysis of an article
\* whose call raised has the article's title, source and date and no mention,
\* and the analysis of any other article is the one analyze_article returned
C24_FailuresIsolated ==
    /\ analysis.pc # "raised"
    /\ analysis.error = ""
    /\ Len(analysis.results) = Len(analysis.calls)
    /\ analysis.pc = "returned" =>
          /\ Len(analysis.results) = Len(analysis.articles)
          /\ \A k \in DOMAIN analysis.articles :
                /\ analysis.calls[k].article = analysis.articles[k]
                /\ analysis.results[k].article_title = analysis.articles[k].title
                /\ analysis.results[k].publication_source = analysis.articles[k].source
                /\ analysis.results[k].publication_date = analysis.articles[k].date
                /\ analysis.calls[k].outcome.kind = "raise" =>
                      analysis.results[k].company_mentions = <<>>
                /\ analysis.calls[k].outcome.kind = "return" =>
                      analysis.results[k] = analysis.calls[k].outcome.analysis
          /\ analysis.successful_analyses + analysis.failed_analyses = Len(analysis.articles)

\* three articles, the first and the last failed: the call returned three
\* analyses, the second with the mention found, the other two empty and
\* carrying their articles' titles, of which the first two differ
C24_Witness ==
    /\ analysis.pc = "returned"
    /\ Len(analysis.articles) = 3
    /\ analysis.calls[1].outcome.kind = "raise"
    /\ analysis.calls[2].outcome.kind = "return"
    /\ analysis.calls[3].outcome.kind = "raise"
    /\ analysis.failed_analyses = 2
    /\ analysis.results[1].company_mentions = <<>>
    /\ analysis.results[2].company_mentions # <<>>
    /\ analysis.results[3].company_mentions = <<>>
    /\ analysis.results[1].article_title = analysis.articles[1].title
    /\ analysis.results[1].article_title # analysis.results[2].article_title


(***************************************************************************)
(* Properties of Container.                                                *)
(***************************************************************************)
Getters == {"get_claude_analyzer", "get_document_processor", "get_csv_exporter"}

\* calls p < q are calls of one getter with no reset between them
SameGetterNoReset(p, q) ==
    /\ p < q
    /\ container.calls[p].op \in Getters
    /\ container.calls[q].op = container.calls[p].op
    /\ \A k \in p..q : container.calls[k].op # "reset"

\* call q is the first call of its getter since the last reset, or since the
\* container was constructed
FirstSinceReset(q) ==
    /\ container.calls[q].op \in Getters
    /\ \A p \in 1..(q - 1) : ~SameGetterNoReset(p, q)

\* C25 as stated: between two resets a getter invokes its constructor at most
\* once, whatever the constructor does
C25_ConstructedOncePerReset ==
    \A p, q \in DOMAIN container.calls :
        (SameGetterNoReset(p, q) /\ container.calls[p].invoked) => ~container.calls[q].invoked

\* C25: once a getter has returned an instance, every later call of it before
\* the next reset returns that identical instance without invoking the
\* constructor, so between two resets at most one invocation constructs an
\* instance; the first call of a getter after a reset that returns has
\* constructed an instance no earlier call returned; a call whose construction
\* raises returns and caches nothing
C25_CachedUntilReset ==
    /\ \A p, q \in DOMAIN container.calls :
          (SameGetterNoReset(p, q) /\ container.calls[p].raised = "") =>
              /\ ~container.calls[q].invoked
              /\ container.calls[q].raised = ""
              /\ container.calls[q].ret = container.calls[p].ret
    /\ \A q \in DOMAIN container.calls :
          (FirstSinceReset(q) /\ container.calls[q].raised = "") =>
              /\ container.calls[q].invoked
              /\ container.calls[q].ret # NoInstance
              /\ \A p \in 1..(q - 1) : container.calls[p].ret # container.calls[q].ret
    /\ \A q \in DOMAIN container.calls :
          container.calls[q].raised # "" => container.calls[q].ret = NoInstance
    /\ \A q \in DOMAIN container.calls :
          (container.calls[q].op \in Getters /\ container.calls[q].raised # ""
              /\ q < Len(container.calls) /\ container.calls[q + 1].op = container.calls[q].op
              /\ container.calls[q + 1].raised = "") =>
                  container.calls[q + 1].invoked

\* get_csv_exporter raised on a directory it could not make, constructed an
\* exporter at the next call and returned the same exporter at the third; after
\* reset() the fourth call constructed another exporter
C25_Witness ==
    /\ Len(container.calls) = 5
    /\ \A k \in {1, 2, 3, 5} : container.calls[k].op = "get_csv_exporter"
    /\ container.calls[1].raised = "OSError"
    /\ container.calls[1].invoked
    /\ container.calls[2].invoked
    /\ container.calls[2].raised = ""
    /\ ~container.calls[3].invoked
    /\ container.calls[3].ret = container.calls[2].ret
    /\ container.calls[4].op = "reset"
    /\ container.calls[5].invoked
    /\ container.calls[5].ret # container.calls[2].ret
    /\ container.calls[5].ret = container._csv_exporter


DirectoryGetters == {"get_document_processor", "get_csv_exporter"}

\* the directory a call of a getter constructs with: its argument, or the
\* configuration's directory when none is given
DirectoryOf(call) ==
    IF call.arg # NotGiven THEN call.arg
    ELSE IF call.op = "get_document_processor" THEN ConfigDataDirectory
    ELSE ConfigOutputDirectory

\* every later call returns the instance an earlier call returned, whatever
\* directory it is given, until reset()
ReturnsCachedWhateverDirectory ==
    \A p, q \in DOMAIN container.calls :
        (/\ SameGetterNoReset(p, q)
         /\ container.calls[p].op \in DirectoryGetters
         /\ container.calls[p].ret # NoInstance) =>
            /\ container.calls[q].ret = container.calls[p].ret
            /\ container.calls[q].raised = ""

\* C30 as stated: the cached instance is returned whatever the directory, and
\* a directory argument is used only by the first call after construction or
\* reset()
C30_DirectoryOnlyOnFirstCall ==
    /\ ReturnsCachedWhateverDirectory
    /\ \A q \in DOMAIN container.calls :
          (container.calls[q].op \in DirectoryGetters /\ container.calls[q].invoked) =>
              FirstSinceReset(q)

\* C30: the cached instance is returned whatever the directory; a call
\* constructs with its directory exactly when no instance is cached, which is
\* the first call after construction or reset() or a call all of whose
\* predecessors since then raised; the instance keeps the directory of the call
\* that constructed it
C30_DirectoryOnlyWhenNothingCached ==
    /\ ReturnsCachedWhateverDirectory
    /\ \A q \in DOMAIN container.calls :
          container.calls[q].op \in DirectoryGetters =>
              /\ container.calls[q].invoked <=>
                    \A p \in 1..(q - 1) :
                        SameGetterNoReset(p, q) => container.calls[p].raised # ""
              /\ (container.calls[q].invoked /\ container.calls[q].raised = "") =>
                    container.calls[q].ret.arg = DirectoryOf(container.calls[q])
              /\ container.calls[q].ret # NoInstance =>
                    \E p \in 1..q :
                        /\ container.calls[p].op = container.calls[q].op
                        /\ container.calls[p].invoked
                        /\ container.calls[p].ret = container.calls[q].ret
                        /\ container.calls[q].ret.arg = DirectoryOf(container.calls[p])

\* a processor was created for a custom directory and the call without a
\* directory returned it, not one for the configured directory; after reset()
\* the call without a directory created a processor for the configured
\* directory, and the call with the custom directory returned that one
C30_Witness ==
    /\ Len(container.calls) = 5
    /\ \A k \in {1, 2, 4, 5} : container.calls[k].op = "get_document_processor"
    /\ container.calls[1].arg = "custom_data"
    /\ container.calls[2].arg = NotGiven
    /\ container.calls[2].ret = container.calls[1].ret
    /\ container.calls[2].ret.arg = "custom_data"
    /\ container.calls[3].op = "reset"
    /\ container.calls[4].arg = NotGiven
    /\ container.calls[4].ret.arg = ConfigDataDirectory
    /\ container.calls[5].arg = "custom_data"
    /\ container.calls[5].ret = container.calls[4].ret


(***************************************************************************)
(* Properties of process_news_articles.                                    *)
(***************************************************************************)
Stages == {"extract", "analyze", "export"}

\* the component a stage calls, the message it logs once it has completed and
\* the exception its except branch raises
StageComponent ==
    [extract |-> "document_processor", analyze |-> "claude_analyzer",
     export |-> "csv_exporter"]

StageDone ==
    [extract |-> "Extracted articles",
     analyze |-> "Analysis complete. Found company mentions",
     export |-> "Summary exported to"]

StageErrorType ==
    [extract |-> "DocumentProcessingError", analyze |-> "ClaudeAPIError",
     export |-> "CSVExportError"]

Logged(message) ==
    \E k \in DOMAIN orchestrator.log : orchestrator.log[k].message = message

\* the stage has called its component
Invoked(stage) ==
    \E k \in DOMAIN orchestrator.calls :
        orchestrator.calls[k].component = StageComponent[stage]

Completed(stage) == Logged(StageDone[stage])

\* the summary has been generated: the line after it has logged
SummaryInvoked == Logged("News contribution analysis completed successfully")

\* the extraction returned an empty list
ExtractedNone ==
    \E k \in DOMAIN orchestrator.log :
        orchestrator.log[k].message = StageDone["extract"] /\ orchestrator.log[k].n = 0

\* C26: a later stage is invoked only after every earlier stage completed and
\* the extraction returned an article; with no articles the run returns
\* ProcessingResult.empty() and neither the analyzer nor the exporter is called;
\* a stage that fails raises its own exception type, which is logged as an
\* error and leaves process_news_articles
C26_StageProtocol ==
    /\ Invoked("analyze") => (Completed("extract") /\ orchestrator.articles # <<>>)
    /\ Invoked("export") => (Invoked("analyze") /\ Completed("analyze"))
    /\ SummaryInvoked => (Invoked("export") /\ Completed("export"))
    /\ ExtractedNone =>
          /\ orchestrator.pc = "returned"
          /\ orchestrator.result = EmptyResult
          /\ ~Invoked("analyze")
          /\ ~Invoked("export")
          /\ Logged("No articles found to process")
    /\ \A stage \in Stages :
          (Invoked(stage) /\ ~Completed(stage)) =>
              /\ orchestrator.pc = "raised"
              /\ orchestrator.error.type = StageErrorType[stage]
              /\ orchestrator.log[Len(orchestrator.log)].level = "error"
              /\ orchestrator.log[Len(orchestrator.log)].error = orchestrator.error
    /\ orchestrator.pc = "raised" =>
          \E stage \in Stages : Invoked(stage) /\ ~Completed(stage)

\* the export failed in export_summary_stats after two articles were
\* extracted and analysed: CSVExportError leaves the run, no summary is made
C26_Witness ==
    /\ orchestrator.pc = "raised"
    /\ Len(orchestrator.articles) = 2
    /\ Len(orchestrator.analyses) = 2
    /\ orchestrator.error.type = "CSVExportError"
    /\ \E k \in DOMAIN orchestrator.calls :
          orchestrator.calls[k].op = "export_summary_stats"
    /\ ~SummaryInvoked


(***************************************************************************)
(* Properties of the order in which compare() handles the mentions.        *)
(***************************************************************************)
\* the "Mention: " lines of the report, in the order they were written
MentionLines == SelectSeq(report, LAMBDA w : w.kind = "Mention: ")

\* every entry of the report belongs to a mention occurrence of its own that
\* was decided ACCEPT or REVIEW, and the entries follow the order of the input
EntriesInInputOrder ==
    \E lines \in {MentionLines} :
    \E f \in [DOMAIN lines -> DOMAIN outcomes] :
        /\ \A k \in DOMAIN lines :
              /\ lines[k].text = mentions[f[k]]
              /\ outcomes[f[k]].decision.kind \in {"ACCEPT", "REVIEW"}
        /\ \A k, l \in DOMAIN lines : k < l => f[k] < f[l]

\* one step of the loop: the position moves by one mention at most, and only
\* together with the decision of the mention it leaves; a shortlist is made and
\* a prompt sent only for mention i, when every mention before it has been
\* decided; the report grows by the entry of mention i only
OneMentionAtATime ==
    /\ i' \in {i, i + 1}
    /\ i' = i => outcomes' = outcomes
    /\ i' = i + 1 =>
          /\ Len(outcomes') = i
          /\ SubSeq(outcomes', 1, i - 1) = outcomes
    /\ (pc = "loop" /\ pc' = "call") =>
          /\ Len(outcomes) = i - 1
          /\ cand' = ShortlistOf(i)
          /\ request' = BuildPrompt(mentions[i], _normalize(mentions[i]), cand', cf_records)
    /\ requests' # requests =>
          /\ pc = "call"
          /\ Len(outcomes) = i - 1
          /\ requests' = Append(requests, request)
          /\ request = BuildPrompt(mentions[i], _normalize(mentions[i]), cand, cf_records)
    /\ (report' # report /\ pc # "open") =>
          /\ i' = i + 1
          /\ report' = report \o EntryFor(mentions[i], outcomes'[i])

\* C27: the mentions are handled one at a time in input order: the shortlist
\* and the service call of a mention start only when every mention before it
\* has been written or suppressed, a mention occurrence has at most one entry
\* in the report, and the entries stand in the order of their mentions
C27_SequentialOrder == [][OneMentionAtATime]_vars /\ []EntriesInInputOrder

\* a finished run over two different mentions, both written: the service
\* received the prompt of the first before that of the second, and the report
\* holds the entry of the first before that of the second
C27_Witness ==
    /\ pc = "done"
    /\ Len(mentions) = 2
    /\ mentions[1] # mentions[2]
    /\ Len(requests) = 2
    /\ requests[1] # requests[2]
    /\ \A j \in 1..2 : outcomes[j].decision.kind \in {"ACCEPT", "REVIEW"}
    /\ report = ReportHeader \o EntryFor(mentions[1], outcomes[1])
                             \o EntryFor(mentions[2], outcomes[2])


(***************************************************************************)
(* Properties of the reference corpora during a run of compare().          *)
(***************************************************************************)
\* the records are those read from the campaign-finance file, and the two
\* sequences are their normalised names and employers
CorporaAsLoaded ==
    \E loaded \in {_load_cf_records(cf_file)} :
        /\ cf_records = loaded
        /\ cf_names = [r \in DOMAIN loaded |-> _normalize(loaded[r]["Contributor Name"])]
        /\ cf_employers =
              [r \in DOMAIN loaded |-> _normalize(loaded[r]["Contributor Employer"])]

\* C28: once loaded, the reference records and the sequences of normalised
\* names and employers are not changed by any step of the loop or by the
\* return: from the opening of the report to the end of the run they are what
\* was loaded
C28_CorporaReadOnly ==
    /\ [][pc \notin {"start", "load"} =>
              UNCHANGED <<cf_records, cf_names, cf_employers>>]_vars
    /\ [](pc \in {"open", "loop", "call", "adjudicate", "done"} => CorporaAsLoaded)

\* a run over a corpus of two records has finished after a shortlist, a
\* service call and a written entry, and the corpora are what was loaded
C28_Witness ==
    /\ pc = "done"
    /\ Len(cf_records) = 2
    /\ Len(requests) >= 1
    /\ Len(report) > Len(ReportHeader)
    /\ CorporaAsLoaded


(***************************************************************************)
(* Properties of the candidates _shortlist_candidates returns.             *)
(***************************************************************************)
\* the candidate names a record of a corpus of n records, counted from 0, and
\* carries that record's normalised name and employer and two scores that are
\* integers from 0 to 100
WellFormed(c, names, employers) ==
    /\ c.index \in 0..(Len(names) - 1)
    /\ c.contributor_name = names[c.index + 1]
    /\ c.contributor_employer = employers[c.index + 1]
    /\ c.name_score \in 0..100
    /\ c.employer_score \in 0..100

\* a list of records parallel to the two lists, as lines 61-63 keep them:
\* record r holds names[r] and employers[r]
ParallelRecords(names, employers) ==
    [r \in DOMAIN names |->
        [col \in Range(CfColumns) |->
            IF col = "Contributor Name" THEN names[r] ELSE employers[r]]]

\* C29: every candidate _shortlist_candidates returns is well formed for the
\* two lists it was given, so that the lookups of the prompt and of the ACCEPT
\* line in a list of records parallel to them find the candidate's record
C29_CandidatesWellFormed ==
    (helper.fn = "_shortlist_candidates" /\ helper.returned) =>
        \E records \in {ParallelRecords(helper.cf_names, helper.cf_employers)} :
            /\ \A p \in DOMAIN helper.ret :
                  /\ WellFormed(helper.ret[p], helper.cf_names, helper.cf_employers)
                  /\ helper.ret[p].index + 1 \in DOMAIN records
                  /\ _format_accept(helper.ret[p], records).name =
                        helper.ret[p].contributor_name
            /\ \E prompt \in {BuildPrompt(<<>>, helper.norm_mention, helper.ret, records)} :
                  \A p \in DOMAIN helper.ret :
                      /\ prompt.candidates[p].name = helper.ret[p].contributor_name
                      /\ prompt.candidates[p].employer = helper.ret[p].contributor_employer

\* a shortlist over three records that holds the first and the last record,
\* one candidate with a score of 100 and one with a score of 0
C29_Witness ==
    /\ helper.fn = "_shortlist_candidates"
    /\ helper.returned
    /\ Len(helper.cf_names) = 3
    /\ \E p, q \in DOMAIN helper.ret :
          /\ helper.ret[p].index = 0
          /\ helper.ret[q].index = 2
          /\ helper.ret[p].name_score = 100
          /\ helper.ret[q].name_score = 0
          /\ helper.ret[q].employer_score > 0

=============================================================================
